---------------------------- MODULE Spec2Model ----------------------------
(***************************************************************************)
(* Model of crusoe_shared_disks_migrate.py: the capture (unmount),         *)
(* remount, rollback, fstab and verify-mounts phases run over a fleet of   *)
(* VMs, the checkpoint file ./crusoe/mounts.json and the per-host mount    *)
(* tables and /etc/fstab files the phases act on.                          *)
(*                                                                         *)
(* Strings the code takes apart are kept in the parts the code takes them  *)
(* into: a mount source is the sequence of its pieces around every         *)
(* ":/volumes/" (so <<"10.0.0.5", "abc">> is "10.0.0.5:/volumes/abc" and   *)
(* <<"filer:/export">> has no delimiter), and an option string is the      *)
(* sequence str.split(",") gives (so <<"">> is the empty string).          *)
(***************************************************************************)
EXTENDS Integers, Sequences, FiniteSets, TLC

(***************************************************************************)
(* Bounds of the model.                                                    *)
(***************************************************************************)
MaxRuns == 3        \* invocations of the script in one behaviour
MaxFaults == 2      \* remote commands that fail in one behaviour
MaxMounts == 2      \* mount points a host may have live at the start
MaxOptions == 3     \* tokens in the option string of a mount
MaxLines == 2       \* lines of an /etc/fstab the rewriter is tried on

(***************************************************************************)
(* Program constants and the fleet.                                        *)
(***************************************************************************)
CRUSOE_NFS_DOMAIN == "nfs.crusoecloudcompute.com"

\* The option list of the remount phase's mount command.
REMOUNT_OPTIONS ==
    <<"vers=3", "nconnect=16", "spread_reads", "spread_writes", "remoteports=dns">>

\* ./crusoe/icat-vms.json as load_vms returns it: the VMs with a public IP.
load_vms ==
    << [name |-> "vmA", public_ip |-> "198.51.100.1"],
       [name |-> "vmB", public_ip |-> "198.51.100.2"] >>

HostIps == {load_vms[n].public_ip : n \in 1..Len(load_vms)}

\* The address the volumes are served from before the migration.
OriginalIp == "10.0.0.5"

AllMountPoints == <<"/data", "/mnt", "/scratch", "/srv">>
MountPoints == SubSeq(AllMountPoints, 1, MaxMounts)

VolumeOf(mp) ==
    CASE mp = "/data" -> "abc"
      [] mp = "/mnt" -> "def"
      [] mp = "/scratch" -> "ghi"
      [] OTHER -> "jkl"

\* The options findmnt reports for the mounts that are live at the start.
OptionsOf(mp) ==
    CASE mp = "/data" -> <<"vers=3">>
      [] mp = "/mnt" -> <<"">>
      [] OTHER -> <<"rw", "x-systemd.automount">>

\* One entry of findmnt's "filesystems" listing.
FsEntry(source, target, options) ==
    [source |-> source, target |-> target, options |-> options]

\* An NFS mount that is not a Crusoe volume: its source has no ":/volumes/".
ForeignEntry == FsEntry(<<"filer:/export">>, "/export", <<"ro">>)

RECURSIVE SelectIdx(_, _, _)
\* The subsequence of s at the indices of the set keep, in order.
SelectIdx(s, keep, n) ==
    IF n > Len(s) THEN <<>>
    ELSE (IF n \in keep THEN <<s[n]>> ELSE <<>>) \o SelectIdx(s, keep, n + 1)

\* The mount tables a host may have when the script is first run.
InitialInventories ==
    LET full == [n \in 1..Len(MountPoints) |->
                    FsEntry(<<OriginalIp, VolumeOf(MountPoints[n])>>,
                            MountPoints[n], OptionsOf(MountPoints[n]))]
        crusoe == {SelectIdx(full, keep, 1) : keep \in SUBSET (1..Len(full))}
    IN crusoe \cup {<<ForeignEntry>> \o full}

(***************************************************************************)
(* json.dump / json.load of the checkpoint.  The file is the sequence of   *)
(* JSON tokens; whitespace (indent=2) carries no information and is not    *)
(* kept.  In memory a dict is the sequence of its items in insertion       *)
(* order, [k |-> key, v |-> value].                                        *)
(***************************************************************************)
P(c) == [t |-> c, v |-> ""]
S(x) == [t |-> "str", v |-> x]

RECURSIVE JoinTokens(_, _)
\* The token lists of `items` joined by "," tokens.
JoinTokens(items, n) ==
    IF n > Len(items) THEN <<>>
    ELSE (IF n > 1 THEN <<P(",")>> ELSE <<>>) \o items[n] \o JoinTokens(items, n + 1)

\* A dump that writes the volume id where the address belongs.
DumpMountMut(m) ==
    <<P("{"),
      S("mount_point"), P(":"), S(m.mount_point), P(","),
      S("volume_id"), P(":"), S(m.volume_id), P(","),
      S("ip_address"), P(":"), S(m.volume_id), P(","),
      S("options"), P(":"), S(m.options),
      P("}")>>

\* One mount dict, keys in the order get_remote_mounts builds it.
DumpMount(m) ==
    <<P("{"),
      S("mount_point"), P(":"), S(m.mount_point), P(","),
      S("volume_id"), P(":"), S(m.volume_id), P(","),
      S("ip_address"), P(":"), S(m.ip_address), P(","),
      S("options"), P(":"), S(m.options),
      P("}")>>

DumpVm(vm_data) ==
    <<P("{"), S("ip"), P(":"), S(vm_data.ip), P(","), S("mounts"), P(":"), P("[")>>
    \o JoinTokens([n \in 1..Len(vm_data.mounts) |-> DumpMount(vm_data.mounts[n])], 1)
    \o <<P("]"), P("}")>>

\* json.dump(all_vm_mounts, f, indent=2)
JsonDump(d) ==
    <<P("{")>>
    \o JoinTokens([n \in 1..Len(d) |-> <<S(d[n].k), P(":")>> \o DumpVm(d[n].v)], 1)
    \o <<P("}")>>

RECURSIVE ParseValue(_, _)
RECURSIVE ParseItems(_, _, _)
RECURSIVE ParseMembers(_, _, _)

\* The JSON value that starts at token n: [v |-> value, n |-> next token].
ParseValue(toks, n) ==
    IF toks[n].t = "str" THEN [v |-> toks[n].v, n |-> n + 1]
    ELSE IF toks[n].t = "[" THEN ParseItems(toks, n + 1, <<>>)
    ELSE ParseMembers(toks, n + 1, <<>>)

ParseItems(toks, n, acc) ==
    IF toks[n].t = "]" THEN [v |-> acc, n |-> n + 1]
    ELSE IF toks[n].t = "," THEN ParseItems(toks, n + 1, acc)
    ELSE LET r == ParseValue(toks, n) IN ParseItems(toks, r.n, Append(acc, r.v))

\* The items of an object; toks[n] is a key, toks[n + 1] the colon.
ParseMembers(toks, n, acc) ==
    IF toks[n].t = "}" THEN [v |-> acc, n |-> n + 1]
    ELSE IF toks[n].t = "," THEN ParseMembers(toks, n + 1, acc)
    ELSE LET r == ParseValue(toks, n + 2)
         IN ParseMembers(toks, r.n, Append(acc, [k |-> toks[n].v, v |-> r.v]))

\* dict[key]; the last item of that key, as a JSON parser keeps it.
Get(obj, key) ==
    LET at == {n \in 1..Len(obj) : obj[n].k = key}
    IN obj[CHOOSE n \in at : \A o \in at : o <= n].v

HasKey(obj, key) == \E n \in 1..Len(obj) : obj[n].k = key

\* json.load(f) of the checkpoint, as the dicts the phases read.
JsonLoad(toks) ==
    LET doc == ParseValue(toks, 1).v
        MountOf(o) == [mount_point |-> Get(o, "mount_point"),
                     volume_id |-> Get(o, "volume_id"),
                     ip_address |-> Get(o, "ip_address"),
                     options |-> Get(o, "options")]
        VmOf(o) == [ip |-> Get(o, "ip"),
                  mounts |-> [n \in 1..Len(Get(o, "mounts")) |->
                                 MountOf(Get(o, "mounts")[n])]]
    IN [n \in 1..Len(doc) |-> [k |-> doc[n].k, v |-> VmOf(doc[n].v)]]

\* d[key] = value on a dict: replaces the value in place or appends the item.
DictSet(d, key, value) ==
    IF HasKey(d, key)
    THEN [n \in 1..Len(d) |-> IF d[n].k = key THEN [k |-> key, v |-> value] ELSE d[n]]
    ELSE Append(d, [k |-> key, v |-> value])

NoFile == [exists |-> FALSE, content |-> <<>>]
\* A write that leaves no file behind.
FileMissing(content) == NoFile

File(content) == [exists |-> TRUE, content |-> content]

(***************************************************************************)
(* The inventory collector.                                                *)
(***************************************************************************)
RECURSIVE get_remote_mounts_break(_)
\* A collector that gives up the listing at the first foreign entry.
get_remote_mounts_break(filesystems) ==
    IF filesystems = <<>> THEN <<>>
    ELSE LET target == Head(filesystems)
             parts == target.source
         IN IF Len(parts) < 2 THEN <<>>
            ELSE <<[mount_point |-> target.target,
                    volume_id |-> parts[2],
                    ip_address |-> parts[1],
                    options |-> target.options]>>
                 \o get_remote_mounts_break(Tail(filesystems))

RECURSIVE get_remote_mounts(_)
\* The records get_remote_mounts builds from a decoded listing: the entries
\* whose source holds ":/volumes/", split on it, parts[0] and parts[1] kept.
get_remote_mounts(filesystems) ==
    IF filesystems = <<>> THEN <<>>
    ELSE LET target == Head(filesystems)
             parts == target.source
         IN (IF Len(parts) < 2 THEN <<>>
             ELSE <<[mount_point |-> target.target,
                     volume_id |-> parts[2],
                     ip_address |-> parts[1],
                     options |-> target.options]>>)
            \o get_remote_mounts(Tail(filesystems))

(***************************************************************************)
(* /etc/fstab.  A line is its leading whitespace, the whitespace between   *)
(* its fields, and the fields line.split() gives, each field in its pieces *)
(* around ":/volumes/".                                                    *)
(***************************************************************************)
Line(lead, sep, fields) == [lead |-> lead, sep |-> sep, fields |-> fields]

RootLine ==
    Line("", " ", << <<"UUID=1f2e">>, <<"/">>, <<"ext4">>, <<"defaults">>, <<"0">>, <<"1">> >>)
CommentLine == Line("", " ", << <<"#">>, <<"shared">>, <<"disks">> >>)
BlankLine == Line("", " ", <<>>)
LegacyLine(mp) ==
    Line("", "\t", << <<OriginalIp, VolumeOf(mp)>>, <<mp>>, <<"nfs">>, <<"defaults">>,
                      <<"0">>, <<"2">> >>)

\* The /etc/fstab of a host when the script is first run.
InitialFstab(host) ==
    IF host = load_vms[1].public_ip
    THEN <<CommentLine, RootLine, LegacyLine(MountPoints[1]), BlankLine>>
    ELSE <<RootLine>>

(***************************************************************************)
(* State.                                                                  *)
(***************************************************************************)
VARIABLES
    live,            \* host -> findmnt -t nfs listing, oldest mount first
    mounts_file,     \* ./crusoe/mounts.json
    pc,              \* where the running invocation is; "idle" between runs
    command,         \* args.command of the running (or last) invocation
    auto_confirm,    \* args.y
    all_vm_mounts,   \* do_unmount's dict
    vm_mounts,       \* load_vm_mounts() in do_remount / do_rollback
    vms_to_process,  \* do_remount / do_rollback's dict
    fstab,           \* host -> the lines of /etc/fstab
    vms_to_update,   \* update_fstab's dict
    results,         \* do_verify_mounts' report rows
    verify_file,     \* nfs_mounts.txt is written (with results; nothing reads it)
    i, j,            \* the host and the mount the loops are at
    total,           \* total_mounts / total_to_restore / total_to_rollback
    total_failed,
    total_succeeded,
    success,         \* what the phase returned
    log,             \* the commands this invocation issued, with outcomes
    pre,             \* the mount tables and checkpoint when the invocation began
    chain,           \* how far a capture, remount, rollback sequence has come
    runs,
    faults,
    virtiofs_mounts, \* the virtiofs-to-NFS script's mounts, from get_current_mounts()
    failed_count,    \* remount_virtiofs_mounts' failed_count
    setup_args,      \* the driver setup script's flags besides -y
    system           \* what the driver setup script finds and changes on the VM

vars == <<live, mounts_file, pc, command, auto_confirm, all_vm_mounts, vm_mounts,
          vms_to_process, fstab, vms_to_update, results, verify_file, i, j, total,
          total_failed, total_succeeded, success, log, pre, chain, runs, faults,
          virtiofs_mounts, failed_count, setup_args, system>>

\* What the mount phases leave alone, and what the fstab and verify phases do.
fstab_vars == <<fstab, vms_to_update, results, verify_file>>
mount_vars == <<live, mounts_file, all_vm_mounts, vm_mounts, vms_to_process>>

\* The state of the virtiofs-to-NFS script, which the migration script leaves alone.
virtiofs_vars == <<virtiofs_mounts, failed_count>>

\* The state of the driver setup script, which the other scripts leave alone.
setup_vars == <<setup_args, system>>

\* A VM the setup script has not touched, and a run without its flags.
FreshSystem ==
    [installed |-> FALSE, enabled |-> FALSE, rules |-> FALSE, read_ahead |-> 0,
     network |-> 0]
NoArgs == [apply_read_ahead_cache |-> FALSE, apply_network_optimizations |-> FALSE]

\* A tally that counts a host given up as one failure.
GivenUpMountsOne(mounts) == 1

\* Lines 465 and 620: every mount of a host given up counts as failed.
GivenUpMounts(mounts) == Len(mounts)

\* One issued command and whether it succeeded.
Cmd(host, cmd, mp, src, form, opts, ok) ==
    [host |-> host, cmd |-> cmd, mp |-> mp, src |-> src, form |-> form,
     opts |-> opts, ok |-> ok]

Query(host, ok) == Cmd(host, "findmnt --json", "", <<>>, "", <<>>, ok)
Umount(host, mp, ok) == Cmd(host, "umount", mp, <<>>, "", <<>>, ok)
\* What the operator may type at a "(y/N)" prompt.
Responses == {"y", "Y", "n", ""}

\* str.lower() on the responses.
lower(response) ==
    CASE response = "Y" -> "y"
      [] response = "N" -> "n"
      [] OTHER -> response

\* No answer is taken for a refusal.
DeclinedNever(response) == FALSE

\* Lines 315, 447, 594, 808: response.lower() != "y".
Declined(response) == lower(response) # "y"

\* The prompt and its answer; ok when the phase goes on.
Input(response) == Cmd("", "input", "", <<>>, response, <<>>, ~Declined(response))

\* Every command of the finished invocation succeeded, the operator agreed,
\* and the phase returned success.
AllOk == success /\ \A n \in 1..Len(log) : log[n].ok

NoChain == [step |-> -1, live0 |-> [h \in HostIps |-> <<>>]]

\* chain after the invocation that has just returned: 1 after a capture, 2
\* after the remount that follows it, 3 after the rollback that follows that,
\* each with every command succeeding; live0 is the mount tables the capture
\* began from.
Progress ==
    IF /\ AllOk
       /\ \/ command = "unmount" /\ chain.step = 0
          \/ command = "remount" /\ chain.step = 1
          \/ command = "rollback" /\ chain.step = 2
    THEN [chain EXCEPT !.step = @ + 1]
    ELSE NoChain

\* Before the first invocation: no checkpoint, nothing run.
Boot ==
    /\ mounts_file = NoFile
    /\ pc = "idle"
    /\ command = "none"
    /\ auto_confirm = FALSE
    /\ all_vm_mounts = <<>>
    /\ vm_mounts = <<>>
    /\ vms_to_process = <<>>
    /\ vms_to_update = <<>>
    /\ results = <<>>
    /\ verify_file = FALSE
    /\ i = 1
    /\ j = 1
    /\ total = 0
    /\ total_failed = 0
    /\ total_succeeded = 0
    /\ success = FALSE
    /\ log = <<>>
    /\ pre = [live |-> live, file |-> mounts_file]
    /\ chain = NoChain
    /\ runs = 0
    /\ faults = 0
    /\ virtiofs_mounts = <<>>
    /\ failed_count = 0
    /\ setup_args = NoArgs

Init ==
    /\ live \in [HostIps -> InitialInventories]
    /\ fstab = [h \in HostIps |-> InitialFstab(h)]
    /\ system = FreshSystem
    /\ Boot

Commands == {"unmount", "remount", "rollback", "fstab", "verify-mounts"}

\* main(): parse the arguments and enter the phase, for an operator who
\* runs the commands of cs.
Run(cs) ==
    /\ pc = "idle"
    /\ runs < MaxRuns
    /\ \E c \in cs, y \in BOOLEAN :
          /\ command' = c
          /\ auto_confirm' = y
          /\ pc' = CASE c = "unmount" -> "unmount_collect"
                     [] c = "remount" -> "remount_load"
                     [] c = "rollback" -> "rollback_load"
                     [] c = "fstab" -> "fstab_read"
                     [] OTHER -> "verify"
    /\ runs' = runs + 1
    /\ pre' = [live |-> live, file |-> mounts_file]
    /\ chain' = IF command' = "unmount" THEN [step |-> 0, live0 |-> live]
                ELSE Progress
    /\ all_vm_mounts' = <<>>
    /\ vm_mounts' = <<>>
    /\ vms_to_process' = <<>>
    /\ vms_to_update' = <<>>
    /\ results' = <<>>
    /\ i' = 1
    /\ j' = 1
    /\ total' = 0
    /\ total_failed' = 0
    /\ total_succeeded' = 0
    /\ log' = <<>>
    /\ success' = FALSE
    /\ UNCHANGED <<setup_vars, live, mounts_file, fstab, verify_file, faults,
                   virtiofs_vars>>

main == Run(Commands)

\* The phase returns v and the process exits.
Return(v) ==
    /\ pc' = "idle"
    /\ success' = v

\* An existence test that never finds the file.
MountsFileExistsNever == FALSE

\* os.path.exists(MOUNTS_FILE)
MountsFileExists == mounts_file.exists

\* The mount table without its newest mount at mount_point.
RemoveMount(table, mount_point) ==
    LET at == {n \in 1..Len(table) : table[n].target = mount_point}
        top == CHOOSE n \in at : \A o \in at : o <= n
    IN SelectIdx(table, (1..Len(table)) \ {top}, 1)

IsMounted(table, mount_point) ==
    \E n \in 1..Len(table) : table[n].target = mount_point

(***************************************************************************)
(* do_unmount.                                                             *)
(***************************************************************************)
\* Step c, one VM: query its mounts and add them to all_vm_mounts.
do_unmount_collect ==
    /\ pc = "unmount_collect"
    /\ LET vm == load_vms[i] IN
          \/ /\ faults < MaxFaults
             /\ faults' = faults + 1
             /\ log' = Append(log, Query(vm.public_ip, FALSE))
             /\ UNCHANGED <<all_vm_mounts, total>>
          \/ /\ LET mounts == get_remote_mounts(live[vm.public_ip]) IN
                   /\ all_vm_mounts' = DictSet(all_vm_mounts, vm.name,
                                               [ip |-> vm.public_ip, mounts |-> mounts])
                   /\ total' = total + Len(mounts)
             /\ log' = Append(log, Query(vm.public_ip, TRUE))
             /\ UNCHANGED faults
    /\ i' = i + 1
    /\ pc' = IF i = Len(load_vms) THEN "unmount_save" ELSE pc
    /\ UNCHANGED <<setup_vars, live, mounts_file, command, auto_confirm, vm_mounts,
                   vms_to_process, j, total_failed, total_succeeded, success,
                   pre, chain, runs, fstab_vars, virtiofs_vars>>

\* The first VM at or after n that has mounts to unmount.
RECURSIVE SkipEmpty(_, _)
SkipEmpty(d, n) ==
    IF n > Len(d) \/ Len(d[n].v.mounts) > 0 THEN n ELSE SkipEmpty(d, n + 1)

\* A capture that goes on to unmount without saving what it collected.
do_unmount_save_unsaved ==
    /\ pc = "unmount_save"
    /\ \/ /\ total = 0
          /\ MountsFileExists
          /\ Return(TRUE)
          /\ UNCHANGED <<mounts_file, log, i>>
       \/ /\ total = 0
          /\ ~MountsFileExists
          /\ mounts_file' = File(JsonDump(all_vm_mounts))
          /\ Return(TRUE)
          /\ UNCHANGED <<log, i>>
       \/ /\ total > 0
          /\ ~auto_confirm
          /\ \E r \in Responses : Declined(r) /\ log' = Append(log, Input(r))
          /\ Return(FALSE)
          /\ UNCHANGED <<mounts_file, i>>
       \/ /\ total > 0
          /\ \E r \in Responses :
                /\ ~Declined(r)
                /\ log' = IF auto_confirm THEN log ELSE Append(log, Input(r))
          /\ pc' = "unmount_umount"
          /\ i' = SkipEmpty(all_vm_mounts, 1)
          /\ UNCHANGED <<success, mounts_file>>
    /\ UNCHANGED <<setup_vars, live, command, auto_confirm, all_vm_mounts, vm_mounts,
                   vms_to_process, j, total, total_failed, total_succeeded,
                   pre, chain, runs, faults, fstab_vars, virtiofs_vars>>

\* Lines 302-322: nothing found, the confirmation, and the save.
do_unmount_save ==
    /\ pc = "unmount_save"
    /\ \/ /\ total = 0
          /\ MountsFileExists
          /\ Return(TRUE)
          /\ UNCHANGED <<mounts_file, log, i>>
       \/ /\ total = 0
          /\ ~MountsFileExists
          /\ mounts_file' = File(JsonDump(all_vm_mounts))
          /\ Return(TRUE)
          /\ UNCHANGED <<log, i>>
       \/ /\ total > 0
          /\ ~auto_confirm
          /\ \E r \in Responses : Declined(r) /\ log' = Append(log, Input(r))
          /\ Return(FALSE)
          /\ UNCHANGED <<mounts_file, i>>
       \/ /\ total > 0
          /\ \E r \in Responses :
                /\ ~Declined(r)
                /\ log' = IF auto_confirm THEN log ELSE Append(log, Input(r))
          /\ mounts_file' = File(JsonDump(all_vm_mounts))
          /\ pc' = "unmount_umount"
          /\ i' = SkipEmpty(all_vm_mounts, 1)
          /\ UNCHANGED success
    /\ UNCHANGED <<setup_vars, live, command, auto_confirm, all_vm_mounts, vm_mounts,
                   vms_to_process, j, total, total_failed, total_succeeded,
                   pre, chain, runs, faults, fstab_vars, virtiofs_vars>>

\* An unmount loop that stops at the first failure.
UnmountAdvanceBreak(d, n, k, err) ==
    IF err THEN [i |-> Len(d) + 1, j |-> 1]
    ELSE IF k < Len(d[n].v.mounts) THEN [i |-> n, j |-> k + 1]
    ELSE [i |-> SkipEmpty(d, n + 1), j |-> 1]

\* Lines 328-347: where the loops go after the umount of mount k of VM n,
\* which failed when err: on to the next mount either way.
UnmountAdvance(d, n, k, err) ==
    IF k < Len(d[n].v.mounts) THEN [i |-> n, j |-> k + 1]
    ELSE [i |-> SkipEmpty(d, n + 1), j |-> 1]

\* Step d, one mount: sudo umount, then on to the next mount or the result.
do_unmount_umount ==
    /\ pc = "unmount_umount"
    /\ LET vm_data == all_vm_mounts[i].v
           mount_point == vm_data.mounts[j].mount_point
           to == UnmountAdvance(all_vm_mounts, i, j, total_failed' > total_failed)
           next == to.i
       IN /\ \/ /\ \/ faults < MaxFaults /\ faults' = faults + 1
                   \/ ~IsMounted(live[vm_data.ip], mount_point) /\ UNCHANGED faults
                /\ log' = Append(log, Umount(vm_data.ip, mount_point, FALSE))
                /\ total_failed' = total_failed + 1
                /\ UNCHANGED <<live, total_succeeded>>
             \/ /\ IsMounted(live[vm_data.ip], mount_point)
                /\ live' = [live EXCEPT ![vm_data.ip] = RemoveMount(@, mount_point)]
                /\ log' = Append(log, Umount(vm_data.ip, mount_point, TRUE))
                /\ total_succeeded' = total_succeeded + 1
                /\ UNCHANGED <<faults, total_failed>>
          /\ i' = next
          /\ j' = to.j
          /\ IF next > Len(all_vm_mounts)
             THEN Return(total_failed' = 0)
             ELSE UNCHANGED <<pc, success>>
    /\ UNCHANGED <<setup_vars, mounts_file, command, auto_confirm, all_vm_mounts, vm_mounts,
                   vms_to_process, total, pre, chain, runs, fstab_vars,
                   virtiofs_vars>>

do_unmount == do_unmount_collect \/ do_unmount_save \/ do_unmount_umount

(***************************************************************************)
(* do_remount.                                                             *)
(***************************************************************************)
\* A load that answers an empty dict when there is no file.
load_vm_mounts_empty ==
    [found |-> TRUE,
     data |-> IF MountsFileExists THEN JsonLoad(mounts_file.content) ELSE <<>>]

\* load_vm_mounts(): found is FALSE for the None it returns without a file.
load_vm_mounts ==
    IF MountsFileExists
    THEN [found |-> TRUE, data |-> JsonLoad(mounts_file.content)]
    ELSE [found |-> FALSE, data |-> <<>>]

\* Lines 381-387 (and 528-534): load the checkpoint or give up.
LoadCheckpoint(check) ==
    LET loaded == load_vm_mounts IN
    /\ IF ~loaded.found THEN Return(FALSE)
       ELSE IF Len(loaded.data) = 0 THEN Return(TRUE)
       ELSE pc' = check /\ UNCHANGED success
    /\ vm_mounts' = loaded.data
    /\ UNCHANGED <<setup_vars, live, mounts_file, command, auto_confirm, all_vm_mounts,
                   vms_to_process, i, j, total, total_failed, total_succeeded,
                   log, pre, chain, runs, faults, fstab_vars, virtiofs_vars>>

do_remount_load == pc = "remount_load" /\ LoadCheckpoint("remount_check")

\* {m["mount_point"] for m in current_mounts}
MountPointsOf(mounts) == {mounts[n].mount_point : n \in 1..Len(mounts)}

RECURSIVE Filter(_, _)
\* [m for m in mounts if m["mount_point"] in keep]
Filter(mounts, keep) ==
    IF mounts = <<>> THEN <<>>
    ELSE (IF Head(mounts).mount_point \in keep THEN <<Head(mounts)>> ELSE <<>>)
         \o Filter(Tail(mounts), keep)

\* mounts_to_restore: the saved mounts whose mount point is not in the listing.
mounts_to_restore(saved_mounts, current_mounts) ==
    Filter(saved_mounts, MountPointsOf(saved_mounts) \ MountPointsOf(current_mounts))

\* Lines 397-435, one VM of the checkpoint.
do_remount_check ==
    /\ pc = "remount_check"
    /\ LET vm_name == vm_mounts[i].k
           vm_ip == vm_mounts[i].v.ip
           saved_mounts == vm_mounts[i].v.mounts
           Plan(current_mounts) ==
               LET restore == mounts_to_restore(saved_mounts, current_mounts) IN
               /\ vms_to_process' =
                      IF Len(restore) > 0
                      THEN DictSet(vms_to_process, vm_name,
                                   [ip |-> vm_ip, mounts |-> restore])
                      ELSE vms_to_process
               /\ total' = total + Len(restore)
       IN \/ /\ vm_ip = "" \/ Len(saved_mounts) = 0
             /\ UNCHANGED <<vms_to_process, total, log, faults>>
          \/ /\ vm_ip # "" /\ Len(saved_mounts) > 0
             /\ faults < MaxFaults
             /\ faults' = faults + 1
             /\ log' = Append(log, Query(vm_ip, FALSE))
             /\ Plan(<<>>)
          \/ /\ vm_ip # "" /\ Len(saved_mounts) > 0
             /\ log' = Append(log, Query(vm_ip, TRUE))
             /\ Plan(get_remote_mounts(live[vm_ip]))
             /\ UNCHANGED faults
    /\ i' = i + 1
    /\ pc' = IF i = Len(vm_mounts) THEN "remount_confirm" ELSE pc
    /\ UNCHANGED <<setup_vars, live, mounts_file, command, auto_confirm, all_vm_mounts,
                   vm_mounts, j, total_failed, total_succeeded, success, pre, chain, runs, fstab_vars,
                   virtiofs_vars>>

\* Lines 441-453 (and 588-600): nothing to do, or the confirmation.
Confirm(go) ==
    /\ \/ /\ total = 0
          /\ Return(TRUE)
          /\ UNCHANGED log
       \/ /\ total > 0
          /\ ~auto_confirm
          /\ \E r \in Responses : Declined(r) /\ log' = Append(log, Input(r))
          /\ Return(FALSE)
       \/ /\ total > 0
          /\ \E r \in Responses :
                /\ ~Declined(r)
                /\ log' = IF auto_confirm THEN log ELSE Append(log, Input(r))
          /\ pc' = go
          /\ UNCHANGED success
    /\ i' = 1
    /\ j' = 1
    /\ UNCHANGED <<setup_vars, live, mounts_file, command, auto_confirm, all_vm_mounts,
                   vm_mounts, vms_to_process, total, total_failed,
                   total_succeeded, pre, chain, runs, faults, fstab_vars,
                   virtiofs_vars>>

do_remount_confirm == pc = "remount_confirm" /\ Confirm("remount_ping")

Ping(host, ok) == Cmd(host, "ping", "", <<CRUSOE_NFS_DOMAIN>>, "", <<>>, ok)
Mkdir(host, mp, ok) == Cmd(host, "mkdir", mp, <<>>, "", <<>>, ok)
Mount(host, form, opts, src, mp, ok) == Cmd(host, "mount", mp, src, form, opts, ok)
Findmnt(host, ok) == Cmd(host, "findmnt", "", <<>>, "", <<>>, ok)

\* A probe whose failure is reported and then ignored.
AfterPingIgnored(ok, n, last) == [i |-> n, pc |-> "remount_mount"]

\* A probe whose failure ends the loop over the VMs.
AfterPingBreak(ok, n, last) ==
    IF ok THEN [i |-> n, pc |-> "remount_mount"]
    ELSE [i |-> last + 1, pc |-> "remount_show"]

\* Lines 463-469: `continue` to the next VM when the probe failed, the mount
\* loop of this VM when it answered.
AfterPing(ok, n, last) ==
    IF ok THEN [i |-> n, pc |-> "remount_mount"]
    ELSE [i |-> n + 1, pc |-> IF n = last THEN "remount_show" ELSE "remount_ping"]

\* Lines 461-467: verify_remote_dns_reachable from one VM.
do_remount_ping ==
    /\ pc = "remount_ping"
    /\ LET vm_ip == vms_to_process[i].v.ip
           mounts == vms_to_process[i].v.mounts
       IN \/ /\ faults < MaxFaults
             /\ faults' = faults + 1
             /\ log' = Append(log, Ping(vm_ip, FALSE))
             /\ total_failed' = total_failed + GivenUpMounts(mounts)
             /\ i' = AfterPing(FALSE, i, Len(vms_to_process)).i
             /\ pc' = AfterPing(FALSE, i, Len(vms_to_process)).pc
          \/ /\ log' = Append(log, Ping(vm_ip, TRUE))
             /\ pc' = AfterPing(TRUE, i, Len(vms_to_process)).pc
             /\ i' = AfterPing(TRUE, i, Len(vms_to_process)).i
             /\ UNCHANGED <<faults, total_failed>>
    /\ j' = 1
    /\ UNCHANGED <<setup_vars, live, mounts_file, command, auto_confirm, all_vm_mounts,
                   vm_mounts, vms_to_process, total, total_succeeded, success,
                   pre, chain, runs, fstab_vars, virtiofs_vars>>

\* A mount loop that leaves the VM at its first failure.
MoreMountsBreak(k, n, err) == ~err /\ k < n

\* Lines 469-492: the loop goes on to the VM's next mount after a failure
\* (`continue` at 480, nothing at 487-489) as after a success.
MoreMounts(k, n, err) == k < n

\* Lines 469-492, one mount: mkdir -p, then mount against the domain.
do_remount_mount ==
    /\ pc = "remount_mount"
    /\ LET vm_ip == vms_to_process[i].v.ip
           mounts == vms_to_process[i].v.mounts
           mount_point == mounts[j].mount_point
           volume_id == mounts[j].volume_id
           source == <<CRUSOE_NFS_DOMAIN, volume_id>>
           made == Append(log, Mkdir(vm_ip, mount_point, TRUE))
       IN /\ \/ /\ faults < MaxFaults
                /\ faults' = faults + 1
                /\ log' = Append(log, Mkdir(vm_ip, mount_point, FALSE))
                /\ total_failed' = total_failed + 1
                /\ UNCHANGED <<live, total_succeeded>>
             \/ /\ faults < MaxFaults
                /\ faults' = faults + 1
                /\ log' = Append(made, Mount(vm_ip, "-o", REMOUNT_OPTIONS, source,
                                             mount_point, FALSE))
                /\ total_failed' = total_failed + 1
                /\ UNCHANGED <<live, total_succeeded>>
             \/ /\ log' = Append(made, Mount(vm_ip, "-o", REMOUNT_OPTIONS, source,
                                             mount_point, TRUE))
                /\ live' = [live EXCEPT ![vm_ip] =
                               Append(@, FsEntry(source, mount_point, REMOUNT_OPTIONS))]
                /\ total_succeeded' = total_succeeded + 1
                /\ UNCHANGED <<faults, total_failed>>
          /\ IF MoreMounts(j, Len(mounts), total_failed' > total_failed)
             THEN j' = j + 1 /\ UNCHANGED <<i, pc>>
             ELSE /\ j' = 1
                  /\ i' = i + 1
                  /\ pc' = IF i = Len(vms_to_process) THEN "remount_show"
                           ELSE "remount_ping"
    /\ UNCHANGED <<setup_vars, mounts_file, command, auto_confirm, all_vm_mounts, vm_mounts,
                   vms_to_process, total, success, pre, chain, runs, fstab_vars,
                   virtiofs_vars>>

\* A listing step that removes the checkpoint once nothing failed.
ShowMountsCleanup ==
    /\ \E failed \in SUBSET (1..Len(vm_mounts)) :
          /\ faults + Cardinality(failed) <= MaxFaults
          /\ faults' = faults + Cardinality(failed)
          /\ log' = log \o [n \in 1..Len(vm_mounts) |->
                               Findmnt(vm_mounts[n].v.ip, n \notin failed)]
    /\ Return(total_failed = 0)
    /\ mounts_file' = IF total_failed = 0 THEN NoFile ELSE mounts_file
    /\ UNCHANGED <<setup_vars, live, command, auto_confirm, all_vm_mounts,
                   vm_mounts, vms_to_process, i, j, total, total_failed,
                   total_succeeded, pre, chain, runs, fstab_vars,
                   virtiofs_vars>>

\* Lines 499-523 (and 668-688): list the mounts of every VM, then the result.
ShowMounts ==
    /\ \E failed \in SUBSET (1..Len(vm_mounts)) :
          /\ faults + Cardinality(failed) <= MaxFaults
          /\ faults' = faults + Cardinality(failed)
          /\ log' = log \o [n \in 1..Len(vm_mounts) |->
                               Findmnt(vm_mounts[n].v.ip, n \notin failed)]
    /\ Return(total_failed = 0)
    /\ UNCHANGED <<setup_vars, live, mounts_file, command, auto_confirm, all_vm_mounts,
                   vm_mounts, vms_to_process, i, j, total, total_failed,
                   total_succeeded, pre, chain, runs, fstab_vars,
                   virtiofs_vars>>

do_remount_show == pc = "remount_show" /\ ShowMounts

do_remount ==
    \/ do_remount_load
    \/ do_remount_check
    \/ do_remount_confirm
    \/ do_remount_ping
    \/ do_remount_mount
    \/ do_remount_show

(***************************************************************************)
(* do_rollback.                                                            *)
(***************************************************************************)
do_rollback_load == pc = "rollback_load" /\ LoadCheckpoint("rollback_check")

RECURSIVE mounts_with_ips(_)
\* [m for m in saved_mounts if m.get("ip_address")]
mounts_with_ips(saved_mounts) ==
    IF saved_mounts = <<>> THEN <<>>
    ELSE (IF Head(saved_mounts).ip_address # "" THEN <<Head(saved_mounts)>> ELSE <<>>)
         \o mounts_with_ips(Tail(saved_mounts))

\* Lines 544-582, one VM of the checkpoint.
do_rollback_check ==
    /\ pc = "rollback_check"
    /\ LET vm_name == vm_mounts[i].k
           vm_ip == vm_mounts[i].v.ip
           mounts == mounts_with_ips(vm_mounts[i].v.mounts)
           Plan(current_mounts) ==
               /\ vms_to_process' =
                      DictSet(vms_to_process, vm_name,
                              [ip |-> vm_ip, mounts |-> mounts,
                               current_mount_points |-> MountPointsOf(current_mounts)])
               /\ total' = total + Len(mounts)
       IN \/ /\ vm_ip = "" \/ Len(mounts) = 0
             /\ UNCHANGED <<vms_to_process, total, log, faults>>
          \/ /\ vm_ip # "" /\ Len(mounts) > 0
             /\ faults < MaxFaults
             /\ faults' = faults + 1
             /\ log' = Append(log, Query(vm_ip, FALSE))
             /\ Plan(<<>>)
          \/ /\ vm_ip # "" /\ Len(mounts) > 0
             /\ log' = Append(log, Query(vm_ip, TRUE))
             /\ Plan(get_remote_mounts(live[vm_ip]))
             /\ UNCHANGED faults
    /\ i' = i + 1
    /\ pc' = IF i = Len(vm_mounts) THEN "rollback_confirm" ELSE pc
    /\ UNCHANGED <<setup_vars, live, mounts_file, command, auto_confirm, all_vm_mounts,
                   vm_mounts, j, total_failed, total_succeeded, success, pre, chain, runs, fstab_vars,
                   virtiofs_vars>>

do_rollback_confirm == pc = "rollback_confirm" /\ Confirm("rollback_enter")

RECURSIVE NextMounted(_, _, _)
\* The first mount at or after n whose mount point is in current_mount_points.
NextMounted(mounts, current_mount_points, n) ==
    IF n > Len(mounts) \/ mounts[n].mount_point \in current_mount_points THEN n
    ELSE NextMounted(mounts, current_mount_points, n + 1)

\* Lines 602-613: enter one VM's unmount loop, up to its first umount.
do_rollback_enter ==
    /\ pc = "rollback_enter"
    /\ LET vm_data == vms_to_process[i].v
           first == NextMounted(vm_data.mounts, vm_data.current_mount_points, 1)
       IN IF first > Len(vm_data.mounts)
          THEN pc' = "rollback_mount" /\ j' = 1
          ELSE pc' = "rollback_umount" /\ j' = first
    /\ UNCHANGED <<setup_vars, live, mounts_file, command, auto_confirm, all_vm_mounts,
                   vm_mounts, vms_to_process, i, total, total_failed,
                   total_succeeded, success, log, pre, chain, runs, faults, fstab_vars,
                   virtiofs_vars>>

\* An unmount loop that goes on after a failure as after a success.
AfterUmountContinue(ok, n, last, next, len) ==
    IF next > len THEN [i |-> n, j |-> 1, pc |-> "rollback_mount"]
    ELSE [i |-> n, j |-> next, pc |-> "rollback_umount"]

\* An unmount loop whose failure ends the loop over the VMs.
AfterUmountBreak(ok, n, last, next, len) ==
    IF ~ok THEN [i |-> last + 1, j |-> 1, pc |-> "rollback_show"]
    ELSE IF next > len THEN [i |-> n, j |-> 1, pc |-> "rollback_mount"]
    ELSE [i |-> n, j |-> next, pc |-> "rollback_umount"]

\* Lines 616-625: `break` and `continue` to the next VM when the umount
\* failed; the next live mount of this VM, or its mount loop, when it did not.
AfterUmount(ok, n, last, next, len) ==
    IF ~ok
    THEN [i |-> n + 1, j |-> 1,
          pc |-> IF n = last THEN "rollback_show" ELSE "rollback_enter"]
    ELSE IF next > len THEN [i |-> n, j |-> 1, pc |-> "rollback_mount"]
    ELSE [i |-> n, j |-> next, pc |-> "rollback_umount"]

\* Lines 614-625, one umount: a failure gives up on the VM.
do_rollback_umount ==
    /\ pc = "rollback_umount"
    /\ LET vm_data == vms_to_process[i].v
           mounts == vm_data.mounts
           mount_point == mounts[j].mount_point
           next == NextMounted(mounts, vm_data.current_mount_points, j + 1)
       IN \/ /\ \/ faults < MaxFaults /\ faults' = faults + 1
                \/ ~IsMounted(live[vm_data.ip], mount_point) /\ UNCHANGED faults
             /\ log' = Append(log, Umount(vm_data.ip, mount_point, FALSE))
             /\ total_failed' = total_failed + GivenUpMounts(mounts)
             /\ LET to == AfterUmount(FALSE, i, Len(vms_to_process), next, Len(mounts))
                IN i' = to.i /\ j' = to.j /\ pc' = to.pc
             /\ UNCHANGED live
          \/ /\ IsMounted(live[vm_data.ip], mount_point)
             /\ live' = [live EXCEPT ![vm_data.ip] = RemoveMount(@, mount_point)]
             /\ log' = Append(log, Umount(vm_data.ip, mount_point, TRUE))
             /\ LET to == AfterUmount(TRUE, i, Len(vms_to_process), next, Len(mounts))
                IN i' = to.i /\ j' = to.j /\ pc' = to.pc
             /\ UNCHANGED <<faults, total_failed>>
    /\ UNCHANGED <<setup_vars, mounts_file, command, auto_confirm, all_vm_mounts, vm_mounts,
                   vms_to_process, total, total_succeeded, success, pre, chain, runs, fstab_vars,
                   virtiofs_vars>>

\* o.startswith("x-systemd."), over the option tokens of the model.
StartsWithXSystemd(o) == o \in {"x-systemd.automount", "x-systemd.idle-timeout=30"}

RECURSIVE StripTokensDns(_)
\* A filter that drops the DNS marker and forgets the systemd tokens.
StripTokensDns(opts) ==
    IF opts = <<>> THEN <<>>
    ELSE (IF Head(opts) # "remoteports=dns" THEN <<Head(opts)>> ELSE <<>>)
         \o StripTokensDns(Tail(opts))

RECURSIVE StripTokens(_)
\* [o for o in opts if not o.startswith("x-systemd.") and o != "remoteports=dns"]
StripTokens(opts) ==
    IF opts = <<>> THEN <<>>
    ELSE (IF ~StartsWithXSystemd(Head(opts)) /\ Head(opts) # "remoteports=dns"
          THEN <<Head(opts)>> ELSE <<>>)
         \o StripTokens(Tail(opts))

\* ",".join(opts) as its split: joining no token gives the empty string.
Join(opts) == IF opts = <<>> THEN <<"">> ELSE opts

\* Lines 632-638: the option string rollback mounts with.
rollback_options(options) ==
    IF options # <<"">> THEN Join(StripTokens(options)) ELSE options

\* A choice of invocation made on the recorded string, not the stripped one.
mount_form_recorded(recorded, options) ==
    IF recorded # <<"">> THEN "-o" ELSE "-t nfs"

\* Lines 650-653: `if options:` picks mount -o {options}, else mount -t nfs.
mount_form(recorded, options) ==
    IF options # <<"">> THEN "-o" ELSE "-t nfs"

\* A rollback that mounts from the domain the remount used.
RollbackSourceDomain(mount) == <<CRUSOE_NFS_DOMAIN, mount.volume_id>>

\* Lines 651, 653: f"{ip_address}:/volumes/{volume_id}"
RollbackSource(mount) == <<mount.ip_address, mount.volume_id>>

\* Lines 628-661, one mount: mkdir -p, then mount from the recorded address.
do_rollback_mount ==
    /\ pc = "rollback_mount"
    /\ LET vm_ip == vms_to_process[i].v.ip
           mounts == vms_to_process[i].v.mounts
           mount_point == mounts[j].mount_point
           source == RollbackSource(mounts[j])
           options == rollback_options(mounts[j].options)
           form == mount_form(mounts[j].options, options)
           made == Append(log, Mkdir(vm_ip, mount_point, TRUE))
       IN /\ \/ /\ faults < MaxFaults
                /\ faults' = faults + 1
                /\ log' = Append(log, Mkdir(vm_ip, mount_point, FALSE))
                /\ total_failed' = total_failed + 1
                /\ UNCHANGED <<live, total_succeeded>>
             \/ /\ faults < MaxFaults
                /\ faults' = faults + 1
                /\ log' = Append(made, Mount(vm_ip, form, options, source,
                                             mount_point, FALSE))
                /\ total_failed' = total_failed + 1
                /\ UNCHANGED <<live, total_succeeded>>
             \/ /\ log' = Append(made, Mount(vm_ip, form, options, source,
                                             mount_point, TRUE))
                /\ live' = [live EXCEPT ![vm_ip] =
                               Append(@, FsEntry(source, mount_point, options))]
                /\ total_succeeded' = total_succeeded + 1
                /\ UNCHANGED <<faults, total_failed>>
          /\ IF j < Len(mounts)
             THEN j' = j + 1 /\ UNCHANGED <<i, pc>>
             ELSE /\ j' = 1
                  /\ i' = i + 1
                  /\ pc' = IF i = Len(vms_to_process) THEN "rollback_show"
                           ELSE "rollback_enter"
    /\ UNCHANGED <<setup_vars, mounts_file, command, auto_confirm, all_vm_mounts, vm_mounts,
                   vms_to_process, total, success, pre, chain, runs, fstab_vars,
                   virtiofs_vars>>

do_rollback_show == pc = "rollback_show" /\ ShowMounts

do_rollback ==
    \/ do_rollback_load
    \/ do_rollback_check
    \/ do_rollback_confirm
    \/ do_rollback_enter
    \/ do_rollback_umount
    \/ do_rollback_mount
    \/ do_rollback_show

(***************************************************************************)
(* process_fstab_content and update_fstab.                                 *)
(***************************************************************************)
\* parts = line.split(); every field is kept as its pieces around ":/volumes/".
IsBlank(line) == line.fields = <<>>
StartsWithHash(piece) == piece \in {"#", "#10.0.0.5"}
IsComment(line) == ~IsBlank(line) /\ StartsWithHash(line.fields[1][1])
\* A test for the domain that never finds it.
StartsWithDomainNever(piece) == FALSE

\* source.startswith(CRUSOE_NFS_DOMAIN), over the sources of the model.
StartsWithDomain(piece) ==
    piece \in {CRUSOE_NFS_DOMAIN, "nfs.crusoecloudcompute.com.example.net"}

FSTAB_OPTIONS ==
    "vers=3,nconnect=16,spread_reads,spread_writes,remoteports=dns,_netdev,nofail,x-systemd.automount,x-systemd.idle-timeout=30"

\* A new line that keeps the address of the old one.
new_line_address(source, mount_point) ==
    Line("", " ", << source, mount_point, <<"nfs">>,
                     <<FSTAB_OPTIONS>>, <<"0">>, <<"0">> >>)

\* Lines 729-734: the line written for a legacy entry.
new_line(source, mount_point) ==
    Line("", " ", << <<CRUSOE_NFS_DOMAIN, source[2]>>, mount_point, <<"nfs">>,
                     <<FSTAB_OPTIONS>>, <<"0">>, <<"0">> >>)

\* A test that takes every type of filesystem for nfs.
NeedsMigrationAnyType(line) ==
    /\ ~IsBlank(line)
    /\ ~IsComment(line)
    /\ Len(line.fields) >= 4
    /\ Len(line.fields[1]) > 1
    /\ ~StartsWithDomain(line.fields[1][1])

\* A test that lets lines of three fields through.
NeedsMigrationThree(line) ==
    /\ ~IsBlank(line)
    /\ ~IsComment(line)
    /\ Len(line.fields) >= 3
    /\ line.fields[3] = <<"nfs">>
    /\ Len(line.fields[1]) > 1
    /\ ~StartsWithDomain(line.fields[1][1])

\* Lines 697-735 for one line: TRUE when the line is one to migrate.
NeedsMigration(line) ==
    /\ ~IsBlank(line)
    /\ ~IsComment(line)
    /\ Len(line.fields) >= 4
    /\ line.fields[3] = <<"nfs">>
    /\ Len(line.fields[1]) > 1
    /\ ~StartsWithDomain(line.fields[1][1])

RECURSIVE process_fstab_content(_)
\* (new_lines, nfs_count) for the lines of content.split("\n").
process_fstab_content(lines) ==
    IF lines = <<>> THEN [new_lines |-> <<>>, nfs_count |-> 0]
    ELSE LET line == Head(lines)
             rest == process_fstab_content(Tail(lines))
         IN IF NeedsMigration(line)
            THEN [new_lines |-> <<new_line(line.fields[1], line.fields[2])>>
                                \o rest.new_lines,
                  nfs_count |-> rest.nfs_count + 1]
            ELSE [new_lines |-> <<line>> \o rest.new_lines,
                  nfs_count |-> rest.nfs_count]

RECURSIVE DropBlankHead(_)
DropBlankHead(lines) ==
    IF lines # <<>> /\ IsBlank(Head(lines)) THEN DropBlankHead(Tail(lines)) ELSE lines

Reverse(s) == [n \in 1..Len(s) |-> s[Len(s) + 1 - n]]

\* run_command's stdout.strip() of cat /etc/fstab, split into lines: blank
\* lines at either end and the indent of the first line are gone.
CatStripped(lines) ==
    LET cut == Reverse(DropBlankHead(Reverse(DropBlankHead(lines))))
    IN IF cut = <<>> THEN <<Line("", " ", <<>>)>>
       ELSE <<[Head(cut) EXCEPT !.lead = ""]>> \o Tail(cut)

Cat(host, ok) == Cmd(host, "cat /etc/fstab", "", <<>>, "", <<>>, ok)
WriteFstab(host, ok) == Cmd(host, "write /etc/fstab", "", <<>>, "", <<>>, ok)

\* A phase that takes every VM it could read for one to update.
needs_update_always(nfs_count) == TRUE

\* Lines 772-782: a VM enters vms_to_update when the rewriter changed a line.
needs_update(nfs_count) == nfs_count # 0

\* Lines 759-782, one VM: read its fstab and count the entries to migrate.
update_fstab_read ==
    /\ pc = "fstab_read"
    /\ LET vm == load_vms[i] IN
          \/ /\ faults < MaxFaults
             /\ faults' = faults + 1
             /\ log' = Append(log, Cat(vm.public_ip, FALSE))
             /\ UNCHANGED <<vms_to_update, total>>
          \/ /\ LET out == CatStripped(fstab[vm.public_ip])
                    done == process_fstab_content(out)
                IN /\ vms_to_update' =
                          IF ~needs_update(done.nfs_count) THEN vms_to_update
                          ELSE DictSet(vms_to_update, vm.name,
                                       [ip |-> vm.public_ip, original |-> out,
                                        new_lines |-> done.new_lines,
                                        nfs_count |-> done.nfs_count])
                   /\ total' = total + done.nfs_count
             /\ log' = Append(log, Cat(vm.public_ip, TRUE))
             /\ UNCHANGED faults
    /\ i' = i + 1
    /\ pc' = IF i = Len(load_vms) THEN "fstab_confirm" ELSE pc
    /\ UNCHANGED <<setup_vars, mount_vars, fstab, results, verify_file, command, auto_confirm,
                   j, total_failed, total_succeeded, success, pre, chain, runs,
                   virtiofs_vars>>

\* Lines 788-810: nothing to migrate, or the confirmation.
update_fstab_confirm ==
    /\ pc = "fstab_confirm"
    /\ \/ /\ total = 0
          /\ Return(TRUE)
          /\ UNCHANGED log
       \/ /\ total > 0
          /\ ~auto_confirm
          /\ \E r \in Responses : Declined(r) /\ log' = Append(log, Input(r))
          /\ Return(FALSE)
       \/ /\ total > 0
          /\ \E r \in Responses :
                /\ ~Declined(r)
                /\ log' = IF auto_confirm THEN log ELSE Append(log, Input(r))
          /\ pc' = "fstab_write"
          /\ UNCHANGED success
    /\ i' = 1
    /\ UNCHANGED <<setup_vars, mount_vars, fstab_vars, command, auto_confirm, j, total,
                   total_failed, total_succeeded, pre, chain, runs, faults,
                   virtiofs_vars>>

\* Lines 816-850, one VM: write the new content over /etc/fstab.
update_fstab_write ==
    /\ pc = "fstab_write"
    /\ LET vm_ip == vms_to_update[i].v.ip
           new_lines == vms_to_update[i].v.new_lines
       IN \/ /\ faults < MaxFaults
             /\ faults' = faults + 1
             /\ log' = Append(log, WriteFstab(vm_ip, FALSE))
             /\ total_failed' = total_failed + 1
             /\ UNCHANGED <<fstab, total_succeeded>>
          \/ /\ log' = Append(log, WriteFstab(vm_ip, TRUE))
             /\ fstab' = [fstab EXCEPT ![vm_ip] = new_lines]
             /\ total_succeeded' = total_succeeded + 1
             /\ UNCHANGED <<faults, total_failed>>
    /\ i' = i + 1
    /\ IF i = Len(vms_to_update)
       THEN Return(total_failed' = 0)
       ELSE UNCHANGED <<pc, success>>
    /\ UNCHANGED <<setup_vars, mount_vars, vms_to_update, results, verify_file, command,
                   auto_confirm, j, total, pre, chain, runs, virtiofs_vars>>

update_fstab == update_fstab_read \/ update_fstab_confirm \/ update_fstab_write

(***************************************************************************)
(* do_verify_mounts.                                                       *)
(***************************************************************************)
Echo(host, ok) == Cmd(host, "echo ok", "", <<>>, "", <<>>, ok)
TestScript(host, ok) == Cmd(host, "test_script", "", <<>>, "", <<>>, ok)

Row(vm_name, count, read_ok, write_ok, mount_status) ==
    [HOST |-> vm_name, COUNT |-> count, READ |-> read_ok, WRITE |-> write_ok,
     MOUNT_POINTS |-> mount_status]

\* The test script ran and printed something that is not four |-separated parts.
Garbled(host) == Cmd(host, "test_script", "", <<>>, "unparsable", <<>>, TRUE)

\* A row for a failure that reads like the row of a host without mounts.
ErrorRowZero(vm_name, why) == Row(vm_name, "0", "0", "0", <<"none">>)

\* Lines 983, 1033, 1040: the row of a host that could not be verified.
ErrorRow(vm_name, why) == Row(vm_name, "ERROR", "-", "-", <<why>>)

\* Lines 973-1051, one VM: the connectivity check, the probes, the row.
do_verify_mounts_probe ==
    /\ pc = "verify"
    /\ LET vm == load_vms[i]
           mounts == live[vm.public_ip]
           n == Len(mounts)
       IN \/ /\ faults < MaxFaults
             /\ faults' = faults + 1
             /\ log' = Append(log, Echo(vm.public_ip, FALSE))
             /\ results' = Append(results, ErrorRow(vm.name, "connection failed"))
          \/ /\ faults < MaxFaults
             /\ faults' = faults + 1
             /\ log' = log \o <<Echo(vm.public_ip, TRUE), TestScript(vm.public_ip, FALSE)>>
             /\ results' = Append(results, ErrorRow(vm.name, "verification failed"))
          \/ /\ faults < MaxFaults
             /\ faults' = faults + 1
             /\ log' = log \o <<Echo(vm.public_ip, TRUE), Garbled(vm.public_ip)>>
             /\ results' = Append(results, ErrorRow(vm.name, "parse error"))
          \/ /\ log' = log \o <<Echo(vm.public_ip, TRUE), TestScript(vm.public_ip, TRUE)>>
             /\ IF n = 0
                THEN /\ results' = Append(results, Row(vm.name, "0", "0", "0", <<"none">>))
                     /\ UNCHANGED faults
                ELSE \E r \in SUBSET (1..n), w \in SUBSET (1..n) :
                        LET lost == (n - Cardinality(r)) + (n - Cardinality(w)) IN
                        /\ faults + lost <= MaxFaults
                        /\ faults' = faults + lost
                        /\ results' = Append(results,
                               Row(vm.name, ToString(n), ToString(Cardinality(r)),
                                   ToString(Cardinality(w)),
                                   [m \in 1..n |->
                                       <<mounts[m].target,
                                         IF m \in r THEN "R" ELSE "-",
                                         IF m \in w THEN "W" ELSE "-">>]))
    /\ i' = i + 1
    /\ pc' = IF i = Len(load_vms) THEN "verify_write" ELSE pc
    /\ UNCHANGED <<setup_vars, mount_vars, fstab, vms_to_update, verify_file, command,
                   auto_confirm, j, total, total_failed, total_succeeded, success,
                   pre, chain, runs, virtiofs_vars>>

\* Lines 1053-1069: write the report and return.
do_verify_mounts_write ==
    /\ pc = "verify_write"
    /\ verify_file' = TRUE
    /\ Return(TRUE)
    /\ UNCHANGED <<setup_vars, mount_vars, fstab, vms_to_update, results, command,
                   auto_confirm, i, j, total, total_failed, total_succeeded, log,
                   pre, chain, runs, faults, virtiofs_vars>>

do_verify_mounts == do_verify_mounts_probe \/ do_verify_mounts_write

Next ==
    \/ main
    \/ do_unmount
    \/ do_remount
    \/ do_rollback
    \/ update_fstab
    \/ do_verify_mounts

Spec == Init /\ [][Next]_vars

(***************************************************************************)
(* Capture on one host, over the listings findmnt may print: Crusoe        *)
(* volumes and foreign NFS mounts in any order.                            *)
(***************************************************************************)
MaxEntries == 3

\* An NFS export whose path only resembles the delimiter.
LookalikeEntry == FsEntry(<<"filer:/srv/volumes/abc">>, "/srv", <<"rw">>)

ListingEntries ==
    {FsEntry(<<OriginalIp, VolumeOf(mp)>>, mp, OptionsOf(mp)) :
        mp \in {MountPoints[n] : n \in 1..Len(MountPoints)}}
        \cup {ForeignEntry, LookalikeEntry}

\* The listings of up to MaxEntries entries, no entry twice.
Listings ==
    UNION {{t \in [1..n -> ListingEntries] :
               \A a, b \in 1..n : a # b => t[a] # t[b]} : n \in 0..MaxEntries}

InitInventory ==
    /\ \E t \in Listings :
          live = [h \in HostIps |-> IF h = load_vms[1].public_ip THEN t ELSE <<>>]
    /\ fstab = [h \in HostIps |-> InitialFstab(h)]
    /\ system = FreshSystem
    /\ Boot

main_unmount == Run({"unmount"})

NextInventory == main_unmount \/ do_unmount

SpecInventory == InitInventory /\ [][NextInventory]_vars

(***************************************************************************)
(* Capture and rollback of one mount, over the option strings findmnt may  *)
(* report for it.                                                          *)
(***************************************************************************)
OptionTokens ==
    {"rw", "remoteports=dns", "remoteports=1-2", "x-systemd.automount",
     "x-systemd.idle-timeout=30"}

\* The option strings: the empty string, and 1..MaxOptions tokens.
OptionStrings ==
    {<<"">>} \cup UNION {[1..n -> OptionTokens] : n \in 1..MaxOptions}

InitOptions ==
    /\ \E o \in OptionStrings :
          live = [h \in HostIps |->
                     IF h = load_vms[1].public_ip
                     THEN <<FsEntry(<<OriginalIp, "abc">>, "/data", o)>>
                     ELSE <<>>]
    /\ fstab = [h \in HostIps |-> InitialFstab(h)]
    /\ system = FreshSystem
    /\ Boot

main_rollback == Run({"unmount", "rollback"})

NextOptions == main_rollback \/ do_unmount \/ do_rollback

SpecOptions == InitOptions /\ [][NextOptions]_vars

(***************************************************************************)
(* The fstab phase over the texts /etc/fstab may hold.                     *)
(***************************************************************************)
\* The first n fields of a legacy entry: without its pass field, without its
\* dump and pass fields, and with neither those nor its options.
ShortLine(n) ==
    Line("", " ", SubSeq(<< <<OriginalIp, "def">>, <<"/mnt">>, <<"nfs">>, <<"defaults">>,
                            <<"1">> >>, 1, n))

DnsLine ==
    Line("", " ", << <<CRUSOE_NFS_DOMAIN, "abc">>, <<"/data">>, <<"nfs">>,
                     <<FSTAB_OPTIONS>>, <<"0">>, <<"0">> >>)

\* A source that begins with the domain without being it.
LookalikeLine ==
    Line("", " ", << <<"nfs.crusoecloudcompute.com.example.net", "abc">>, <<"/data">>,
                     <<"nfs">>, <<"defaults">>, <<"0">>, <<"0">> >>)

FilerLine ==
    Line("", " ", << <<"filer:/export">>, <<"/export">>, <<"nfs">>, <<"ro">>, <<"0">>, <<"0">> >>)

Nfs4Line ==
    Line("", " ", << <<OriginalIp, "abc">>, <<"/data">>, <<"nfs4">>, <<"defaults">>,
                     <<"0">>, <<"0">> >>)

CommentedLine ==
    Line("", " ", << <<"#10.0.0.5", "abc">>, <<"/data">>, <<"nfs">>, <<"defaults">>,
                     <<"0">>, <<"0">> >>)

IndentedLine == [LegacyLine("/data") EXCEPT !.lead = "  "]

FstabLines ==
    {BlankLine, CommentLine, RootLine, LegacyLine("/data"), IndentedLine,
     ShortLine(5), ShortLine(4), ShortLine(3), DnsLine, LookalikeLine, FilerLine, Nfs4Line,
     CommentedLine}

\* The texts: 1..MaxLines lines.
FstabTexts == UNION {[1..n -> FstabLines] : n \in 1..MaxLines}

InitFstab ==
    /\ live = [h \in HostIps |-> <<>>]
    /\ \E t \in FstabTexts :
          fstab = [h \in HostIps |->
                      IF h = load_vms[1].public_ip THEN t ELSE InitialFstab(h)]
    /\ system = FreshSystem
    /\ Boot

main_fstab == Run({"fstab"})

NextFstab == main_fstab \/ update_fstab

SpecFstab == InitFstab /\ [][NextFstab]_vars

(***************************************************************************)
(* crusoe_shared_disks_virtiofs_to_nfs.py, run on the VM this_vm: the      *)
(* virtiofs mounts of the VM are unmounted and mounted again over NFS,     *)
(* and when none failed the virtiofs lines of /etc/fstab are replaced.     *)
(***************************************************************************)
MaxVirtiofsLines == 3
MaxVirtiofsRuns == 1

start_ip == "100.64.0.2"
end_ip == "100.64.0.17"

\* The VM the script is run on.
this_vm == load_vms[1].public_ip

\* --name-ids as get_name_to_id_mapping returns it.
name_to_id == [disk_name \in {"disk-1", "disk-2"} |->
                  IF disk_name = "disk-1" THEN "abc" ELSE "def"]

\* The disks of the model; disk-9 is not in --name-ids.
Disks == {"disk-1", "disk-2", "disk-9"}

NUM_RETRIES == 5

VIRTIOFS_TO_NFS_OPTIONS ==
    "vers=3,nconnect=16,spread_reads,spread_writes,remoteports=100.64.0.2-100.64.0.17"

\* A virtiofs mount in the VM's mount table: the source is the disk name.
VirtiofsEntry(disk_name, mount_dir) == FsEntry(<<disk_name>>, mount_dir, <<"rw">>)

IsVirtiofs(entry) == Len(entry.source) = 1 /\ entry.source[1] \in Disks

RECURSIVE get_current_mounts(_)
\* Lines 59-65: (target, source) of the listing of findmnt -t virtiofs.
get_current_mounts(table) ==
    IF table = <<>> THEN <<>>
    ELSE (IF IsVirtiofs(Head(table))
          THEN << <<Head(table).target, Head(table).source[1]>> >> ELSE <<>>)
         \o get_current_mounts(Tail(table))

\* What get_current_mounts returns when findmnt fails, and findmnt fails when
\* it finds no mount: the function returns without a value. It is written as
\* a list no findmnt output parses to, so that it compares with the lists.
None == << <<"None", "None">> >>

FindmntVirtiofs(ok) == Cmd(this_vm, "findmnt -t virtiofs", "", <<>>, "", <<>>, ok)
PingIp(ip, ok) == Cmd(this_vm, "ping", "", <<ip>>, "", <<>>, ok)
MountVirtiofs(disk_name, mount_dir, ok) ==
    Cmd(this_vm, "mount", mount_dir, <<disk_name>>, "-t virtiofs", <<>>, ok)
MountNfs(disk_name, mount_dir, ok) ==
    Cmd(this_vm, "mount", mount_dir, <<start_ip, name_to_id[disk_name]>>, "-o",
        <<VIRTIOFS_TO_NFS_OPTIONS>>, ok)
\* An exception nothing catches: the traceback ends the script.
Raise(error) == Cmd(this_vm, error, "", <<>>, "", <<>>, FALSE)

\* Lines 201-224: do_main, with well-formed --name-ids.
do_main ==
    /\ pc = "idle"
    /\ runs < MaxVirtiofsRuns
    /\ runs' = runs + 1
    /\ command' = "virtiofs-to-nfs"
    /\ \E y \in BOOLEAN : auto_confirm' = y
    /\ pc' = "get_current_mounts"
    /\ pre' = [live |-> live, file |-> mounts_file]
    /\ log' = <<>>
    /\ success' = FALSE
    /\ virtiofs_mounts' = <<>>
    /\ failed_count' = 0
    /\ i' = 1
    /\ j' = 1
    /\ UNCHANGED <<setup_vars, live, mounts_file, all_vm_mounts, vm_mounts, vms_to_process,
                   fstab, vms_to_update, results, verify_file, total,
                   total_failed, total_succeeded, chain, faults>>

\* Lines 54-65 and 87.
remount_virtiofs_mounts_collect ==
    /\ pc = "get_current_mounts"
    /\ LET found == get_current_mounts(live[this_vm]) IN
          \/ /\ found # <<>>
             /\ virtiofs_mounts' = found
             /\ log' = Append(log, FindmntVirtiofs(TRUE))
             /\ UNCHANGED faults
          \/ /\ found = <<>>
             /\ virtiofs_mounts' = None
             /\ log' = Append(log, FindmntVirtiofs(FALSE))
             /\ UNCHANGED faults
          \/ /\ found # <<>>
             /\ faults < MaxFaults
             /\ faults' = faults + 1
             /\ virtiofs_mounts' = None
             /\ log' = Append(log, FindmntVirtiofs(FALSE))
    /\ pc' = "verify_ping"
    /\ UNCHANGED <<setup_vars, live, mounts_file, command, auto_confirm, all_vm_mounts,
                   vm_mounts, vms_to_process, fstab, vms_to_update, results,
                   verify_file, i, j, total, total_failed, total_succeeded,
                   success, pre, chain, runs, failed_count>>

\* A script that goes on to /etc/fstab whatever the remount returned.
AfterRemountAlways(succeeded) == "remount_fstab_mounts"

\* Lines 223-226: remount_fstab_mounts runs only if remount_virtiofs_mounts
\* returned a true value; the bare returns of lines 83 and 106 are None.
AfterRemount(succeeded) == IF succeeded THEN "remount_fstab_mounts" ELSE "idle"

\* Lines 78-106: both pings, the count of the mounts, the prompt.
remount_virtiofs_mounts_check ==
    /\ pc = "verify_ping"
    /\ \/ /\ faults < MaxFaults
          /\ faults' = faults + 1
          /\ \/ log' = Append(log, PingIp(start_ip, FALSE))
             \/ log' = log \o <<PingIp(start_ip, TRUE), PingIp(end_ip, FALSE)>>
          /\ pc' = AfterRemount(FALSE)
       \/ /\ virtiofs_mounts = None
          /\ log' = log \o <<PingIp(start_ip, TRUE), PingIp(end_ip, TRUE),
                             Raise("TypeError")>>
          /\ pc' = "idle"
          /\ UNCHANGED faults
       \/ /\ virtiofs_mounts # None
          /\ ~auto_confirm
          /\ \E r \in Responses :
                /\ Declined(r)
                /\ log' = log \o <<PingIp(start_ip, TRUE), PingIp(end_ip, TRUE),
                                   Input(r)>>
          /\ pc' = AfterRemount(FALSE)
          /\ UNCHANGED faults
       \/ /\ virtiofs_mounts # None
          /\ \E r \in Responses :
                /\ ~Declined(r)
                /\ log' = log \o <<PingIp(start_ip, TRUE), PingIp(end_ip, TRUE)>>
                              \o (IF auto_confirm THEN <<>> ELSE <<Input(r)>>)
          /\ pc' = "umount"
          /\ UNCHANGED faults
    /\ UNCHANGED <<setup_vars, live, mounts_file, command, auto_confirm, all_vm_mounts,
                   vm_mounts, vms_to_process, fstab, vms_to_update, results,
                   verify_file, i, j, total, total_failed, total_succeeded,
                   success, pre, chain, runs, virtiofs_vars>>

\* A loop that stops at the first mount that failed.
NextMountStop ==
    IF j = Len(virtiofs_mounts) \/ failed_count' > 0
    THEN /\ pc' = AfterRemount(failed_count' = 0)
         /\ success' = (failed_count' = 0)
         /\ j' = j
    ELSE /\ pc' = "umount"
         /\ j' = j + 1
         /\ UNCHANGED success

\* Line 109: the next mount of the loop, or lines 139-142 after the last.
NextMount ==
    IF j = Len(virtiofs_mounts)
    THEN /\ pc' = AfterRemount(failed_count' = 0)
         /\ success' = (failed_count' = 0)
         /\ j' = j
    ELSE /\ pc' = "umount"
         /\ j' = j + 1
         /\ UNCHANGED success

\* Lines 110-117: print_err_and_remount, mounting the disk as virtiofs again.
print_err_and_remount(table, disk_name, mount_dir, before) ==
    \E ok \in BOOLEAN :
        /\ log' = log \o before \o <<MountVirtiofs(disk_name, mount_dir, ok)>>
        /\ live' = [live EXCEPT ![this_vm] =
                       IF ok THEN Append(table, VirtiofsEntry(disk_name, mount_dir))
                       ELSE table]

\* Lines 119-127, one mount: the unmount.
remount_virtiofs_mounts_umount ==
    /\ pc = "umount"
    /\ LET mount_dir == virtiofs_mounts[j][1]
           disk_name == virtiofs_mounts[j][2]
       IN \/ /\ faults < MaxFaults
             /\ faults' = faults + 1
             /\ print_err_and_remount(live[this_vm], disk_name, mount_dir,
                                      <<Umount(this_vm, mount_dir, FALSE)>>)
             /\ failed_count' = failed_count + 1
             /\ NextMount
             /\ UNCHANGED i
          \/ /\ log' = Append(log, Umount(this_vm, mount_dir, TRUE))
             /\ live' = [live EXCEPT ![this_vm] = RemoveMount(@, mount_dir)]
             /\ pc' = "mount"
             /\ i' = 1
             /\ UNCHANGED <<j, success, failed_count, faults>>
    /\ UNCHANGED <<setup_vars, mounts_file, command, auto_confirm, all_vm_mounts, vm_mounts,
                   vms_to_process, fstab, vms_to_update, results, verify_file,
                   total, total_failed, total_succeeded, pre, chain, runs,
                   virtiofs_mounts>>

\* A loop that goes round once more.
MoreAttemptsSix(attempt) == attempt < NUM_RETRIES + 1

\* Lines 128 and 132: range(num_retries) has another attempt after this one;
\* the attempt without one is i == num_retries - 1.
MoreAttempts(attempt) == attempt < NUM_RETRIES

\* Lines 128-137, one attempt of the NFS mount.
remount_virtiofs_mounts_mount ==
    /\ pc = "mount"
    /\ LET mount_dir == virtiofs_mounts[j][1]
           disk_name == virtiofs_mounts[j][2]
       IN \/ /\ disk_name \notin DOMAIN name_to_id
             /\ log' = Append(log, Raise("KeyError"))
             /\ pc' = "idle"
             /\ UNCHANGED <<live, i, j, success, failed_count>>
          \/ /\ disk_name \in DOMAIN name_to_id
             /\ log' = Append(log, MountNfs(disk_name, mount_dir, TRUE))
             /\ live' = [live EXCEPT ![this_vm] =
                            Append(@, FsEntry(<<start_ip, name_to_id[disk_name]>>,
                                              mount_dir, <<VIRTIOFS_TO_NFS_OPTIONS>>))]
             /\ failed_count' = failed_count
             /\ NextMount
             /\ UNCHANGED i
          \/ /\ disk_name \in DOMAIN name_to_id
             /\ MoreAttempts(i)
             /\ log' = Append(log, MountNfs(disk_name, mount_dir, FALSE))
             /\ i' = i + 1
             /\ UNCHANGED <<live, pc, j, success, failed_count>>
          \/ /\ disk_name \in DOMAIN name_to_id
             /\ ~MoreAttempts(i)
             /\ print_err_and_remount(live[this_vm], disk_name, mount_dir,
                                      <<MountNfs(disk_name, mount_dir, FALSE)>>)
             /\ failed_count' = failed_count + 1
             /\ NextMount
             /\ UNCHANGED i
    /\ UNCHANGED <<setup_vars, mounts_file, command, auto_confirm, all_vm_mounts, vm_mounts,
                   vms_to_process, fstab, vms_to_update, results, verify_file,
                   total, total_failed, total_succeeded, pre, chain, runs, faults,
                   virtiofs_mounts>>

remount_virtiofs_mounts ==
    \/ remount_virtiofs_mounts_collect
    \/ remount_virtiofs_mounts_check
    \/ remount_virtiofs_mounts_umount
    \/ remount_virtiofs_mounts_mount

\* Line 171: the NFS line for a disk of --name-ids.
nfs_line(disk_name, mount_dir) ==
    Line("", " ", << <<start_ip, name_to_id[disk_name]>>, mount_dir, <<"nfs">>,
                     <<VIRTIOFS_TO_NFS_OPTIONS>>, <<"0">>, <<"0">> >>)

RECURSIVE rewrite_from(_, _)
\* Lines 157-171 from line n on: the lines written in place of the old ones,
\* the number of virtiofs lines met, and whether an index was out of range.
rewrite_from(out_lines, n) ==
    IF n > Len(out_lines)
    THEN [new_lines |-> <<>>, virtiofs_mount_count |-> 0, raised |-> FALSE]
    ELSE LET old_line == out_lines[n]
             mount_options == old_line.fields
             rest == rewrite_from(out_lines, n + 1)
         IN IF Len(mount_options) < 2
            THEN [new_lines |-> <<>>, virtiofs_mount_count |-> 0, raised |-> TRUE]
            ELSE IF Len(mount_options) < 6 \/ mount_options[3] # <<"virtiofs">>
            THEN [rest EXCEPT !.new_lines = <<old_line>> \o @]
            ELSE IF mount_options[1] \notin {<<d>> : d \in DOMAIN name_to_id}
            THEN [rest EXCEPT !.new_lines = <<old_line>> \o @,
                              !.virtiofs_mount_count = @ + 1]
            ELSE [rest EXCEPT
                     !.new_lines = <<nfs_line(mount_options[1][1], mount_options[2])>> \o @,
                     !.virtiofs_mount_count = @ + 1]

\* Lines 155-171: new_lines = out_lines[:] and the loop over range(1, len).
rewrite(out_lines) ==
    LET rest == rewrite_from(out_lines, 2)
    IN [rest EXCEPT !.new_lines = <<out_lines[1]>> \o @]

\* Lines 144-199.
remount_fstab_mounts ==
    /\ pc = "remount_fstab_mounts"
    /\ pc' = "idle"
    /\ LET out_lines == CatStripped(fstab[this_vm])
           done == IF Len(out_lines) < 2 THEN [raised |-> FALSE] ELSE rewrite(out_lines)
       IN \/ /\ faults < MaxFaults
             /\ faults' = faults + 1
             /\ log' = Append(log, Cat(this_vm, FALSE))
             /\ UNCHANGED fstab
          \/ /\ Len(out_lines) < 2
             /\ log' = Append(log, Cat(this_vm, TRUE))
             /\ UNCHANGED <<fstab, faults>>
          \/ /\ Len(out_lines) >= 2
             /\ done.raised
             /\ log' = log \o <<Cat(this_vm, TRUE), Raise("IndexError")>>
             /\ UNCHANGED <<fstab, faults>>
          \/ /\ Len(out_lines) >= 2
             /\ ~done.raised
             /\ done.virtiofs_mount_count = 0
             /\ log' = Append(log, Cat(this_vm, TRUE))
             /\ UNCHANGED <<fstab, faults>>
          \/ /\ Len(out_lines) >= 2
             /\ ~done.raised
             /\ done.virtiofs_mount_count > 0
             /\ ~auto_confirm
             /\ \E r \in Responses :
                   /\ Declined(r)
                   /\ log' = log \o <<Cat(this_vm, TRUE), Input(r)>>
             /\ UNCHANGED <<fstab, faults>>
          \/ /\ Len(out_lines) >= 2
             /\ ~done.raised
             /\ done.virtiofs_mount_count > 0
             /\ \E r \in Responses, ok \in BOOLEAN :
                   /\ ~Declined(r)
                   /\ ok \/ faults < MaxFaults
                   /\ faults' = IF ok THEN faults ELSE faults + 1
                   /\ log' = log \o <<Cat(this_vm, TRUE)>>
                                 \o (IF auto_confirm THEN <<>> ELSE <<Input(r)>>)
                                 \o <<WriteFstab(this_vm, ok)>>
                   /\ fstab' = IF ok THEN [fstab EXCEPT ![this_vm] = done.new_lines]
                               ELSE fstab
    /\ UNCHANGED <<setup_vars, live, mounts_file, command, auto_confirm, all_vm_mounts,
                   vm_mounts, vms_to_process, vms_to_update, results, verify_file,
                   i, j, total, total_failed, total_succeeded, success, pre,
                   chain, runs, virtiofs_vars>>

\* A virtiofs line of /etc/fstab.
VirtiofsLine(disk_name, mount_dir) ==
    Line("", " ", << <<disk_name>>, <<mount_dir>>, <<"virtiofs">>, <<"defaults">>,
                     <<"0">>, <<"0">> >>)

\* A line of one field.
LoneLine == Line("", " ", << <<"#">> >>)

VirtiofsFstabLines ==
    {RootLine, BlankLine, LoneLine, VirtiofsLine("disk-1", "/data"),
     VirtiofsLine("disk-9", "/old")}

VirtiofsFstabTexts ==
    UNION {[1..n -> VirtiofsFstabLines] : n \in 1..MaxVirtiofsLines}

\* The virtiofs mounts of the VM when the script is run.
VirtiofsTables ==
    {<<>>,
     <<VirtiofsEntry("disk-1", "/data")>>,
     <<VirtiofsEntry("disk-1", "/data"), VirtiofsEntry("disk-2", "/scratch")>>,
     <<VirtiofsEntry("disk-1", "/data"), VirtiofsEntry("disk-9", "/old")>>}

InitVirtiofs ==
    /\ \E table \in VirtiofsTables, text \in VirtiofsFstabTexts :
          /\ live = [h \in HostIps |-> IF h = this_vm THEN table ELSE <<>>]
          /\ fstab = [h \in HostIps |-> IF h = this_vm THEN text ELSE <<RootLine>>]
    /\ system = FreshSystem
    /\ Boot

NextVirtiofs == do_main \/ remount_virtiofs_mounts \/ remount_fstab_mounts

SpecVirtiofs == InitVirtiofs /\ [][NextVirtiofs]_vars

\* Once started the script runs on: every command is a blocking call with a
\* timeout and the prompt is answered.
SpecVirtiofsLive ==
    SpecVirtiofs /\ WF_vars(remount_virtiofs_mounts \/ remount_fstab_mounts)

(***************************************************************************)
(* The driver setup script, crusoe_shared_disks_nfs_setup.py.              *)
(***************************************************************************)
MaxSetupRuns == 2

\* The commands of the script.
SetupCmd(cmd, ok) == Cmd(this_vm, cmd, "", <<>>, "", <<>>, ok)
EnableCmd == "update-initramfs && vastnfs-ctl reload"
ReadAheadCmds ==
    <<"write 95-nfs-readahead.rules", "udevadm reload", "append /etc/nfs.conf">>
NetworkCmds ==
    <<"write network-config-nfs.sh", "append mtu", "append ring buffer", "chmod +x",
      "write network-config-nfs.service", "systemctl enable">>

\* The prompts, lines 51, 128 and 163: the answer with the step it is about.
Prompt(step, response) == [Input(response) EXCEPT !.mp = step]

\* sys.exit(1), line 234.
Exit(code) == Cmd(this_vm, "sys.exit", "", <<>>, "", <<>>, code = 0)

\* The first n commands of cs succeeded; and the n-th failed after the others.
Succeeded(cs, n) == [k \in 1..n |-> SetupCmd(cs[k], TRUE)]
FailedAt(cs, n) == Succeeded(cs, n - 1) \o <<SetupCmd(cs[n], FALSE)>>

\* What manually_install_VAST_NFS_driver returns: "" at line 54, the error
\* at lines 63, 69 and 75, nothing at the end; and Python's truth of it.
Cancelled == ""
SomeError == "error"
Nothing == "None"
Truth(value) == value \notin {"", "None"}

\* Lines 228-234: what do_main does after install_VAST_NFS_driver returned.
AfterInstall(succeeded, args) ==
    IF ~succeeded THEN "exit"
    ELSE IF args.apply_read_ahead_cache THEN "update_read_ahead_cache"
    ELSE IF args.apply_network_optimizations THEN "optimize_network_interface"
    ELSE "idle"

AfterReadAhead(args) ==
    IF args.apply_network_optimizations THEN "optimize_network_interface" ELSE "idle"

\* Lines 215-226: the flags are read and install_VAST_NFS_driver is called.
check_args ==
    /\ pc = "idle"
    /\ runs < MaxSetupRuns
    /\ runs' = runs + 1
    /\ command' = "nfs-setup"
    /\ \E y \in BOOLEAN : auto_confirm' = y
    /\ \E r, n \in BOOLEAN :
          setup_args' = [apply_read_ahead_cache |-> r, apply_network_optimizations |-> n]
    /\ pc' = "install_VAST_NFS_driver"
    /\ pre' = [live |-> live, file |-> mounts_file]
    /\ log' = <<>>
    /\ success' = FALSE
    /\ UNCHANGED <<live, mounts_file, all_vm_mounts, vm_mounts, vms_to_process,
                   fstab, vms_to_update, results, verify_file, i, j, total,
                   total_failed, total_succeeded, chain, faults, virtiofs_vars,
                   system>>

\* Lines 78-106: the check for the package and the kernel version.
install_VAST_NFS_driver_check ==
    /\ pc = "install_VAST_NFS_driver"
    /\ \/ /\ system.installed
          /\ log' = Append(log, SetupCmd("dpkg -l | grep vastnfs", TRUE))
          /\ success' = TRUE
          /\ pc' = AfterInstall(TRUE, setup_args)
          /\ UNCHANGED faults
       \/ /\ ~system.installed \/ faults < MaxFaults
          /\ faults' = IF system.installed THEN faults + 1 ELSE faults
          /\ log' = log \o <<SetupCmd("dpkg -l | grep vastnfs", FALSE),
                             SetupCmd("uname -r", TRUE)>>
          /\ pc' = "manually_install_VAST_NFS_driver"
          /\ UNCHANGED success
       \/ /\ ~system.installed
          /\ faults < MaxFaults
          /\ faults' = faults + 1
          /\ log' = log \o <<SetupCmd("dpkg -l | grep vastnfs", FALSE),
                             SetupCmd("uname -r", FALSE)>>
          /\ pc' = "enable"
          /\ UNCHANGED success
    /\ UNCHANGED <<live, mounts_file, command, auto_confirm, all_vm_mounts,
                   vm_mounts, vms_to_process, fstab, vms_to_update, results,
                   verify_file, i, j, total, total_failed, total_succeeded,
                   pre, chain, runs, virtiofs_vars, setup_vars>>

\* Lines 103-106: install_VAST_NFS_driver with what the installation returned.
Installed(err, issued) ==
    /\ log' = log \o issued \o (IF Truth(err) THEN <<Exit(1)>> ELSE <<>>)
    /\ pc' = IF Truth(err) THEN "idle" ELSE "enable"

\* Lines 49-77, and 103-106 and 233-234 for what it returns. The kernel
\* version chooses which package the download fetches, nothing else.
manually_install_VAST_NFS_driver ==
    /\ pc = "manually_install_VAST_NFS_driver"
    /\ LET steps == <<"wget crusoe_nfs.deb", "apt-get install dkms nfs-common",
                      "dpkg -i crusoe_nfs.deb">>
       IN \E r \in Responses :
             LET asked == IF auto_confirm THEN <<>> ELSE <<Prompt("install", r)>> IN
             \/ /\ ~auto_confirm
                /\ Declined(r)
                /\ Installed(Cancelled, asked)
                /\ UNCHANGED <<system, faults>>
             \/ /\ auto_confirm \/ ~Declined(r)
                /\ faults < MaxFaults
                /\ faults' = faults + 1
                /\ \E n \in 1..Len(steps) :
                      Installed(SomeError, asked \o FailedAt(steps, n))
                /\ UNCHANGED system
             \/ /\ auto_confirm \/ ~Declined(r)
                /\ Installed(Nothing, asked \o Succeeded(steps, Len(steps)))
                /\ system' = [system EXCEPT !.installed = TRUE]
                /\ UNCHANGED faults
    /\ UNCHANGED <<live, mounts_file, command, auto_confirm, all_vm_mounts,
                   vm_mounts, vms_to_process, fstab, vms_to_update, results,
                   verify_file, i, j, total, total_failed, total_succeeded,
                   success, pre, chain, runs, virtiofs_vars, setup_args>>

\* Lines 108-114: the drivers are enabled and the installation returns True
\* whatever the command answered.
install_VAST_NFS_driver_enable ==
    /\ pc = "enable"
    /\ \E ok \in BOOLEAN :
          /\ ok \/ faults < MaxFaults
          /\ faults' = IF ok THEN faults ELSE faults + 1
          /\ log' = Append(log, SetupCmd(EnableCmd, ok))
          /\ system' = [system EXCEPT !.enabled = ok \/ @]
    /\ success' = TRUE
    /\ pc' = AfterInstall(TRUE, setup_args)
    /\ UNCHANGED <<live, mounts_file, command, auto_confirm, all_vm_mounts,
                   vm_mounts, vms_to_process, fstab, vms_to_update, results,
                   verify_file, i, j, total, total_failed, total_succeeded,
                   pre, chain, runs, virtiofs_vars, setup_args>>

install_VAST_NFS_driver ==
    \/ install_VAST_NFS_driver_check
    \/ manually_install_VAST_NFS_driver
    \/ install_VAST_NFS_driver_enable

\* Lines 115-151.
update_read_ahead_cache ==
    /\ pc = "update_read_ahead_cache"
    /\ pc' = AfterReadAhead(setup_args)
    /\ LET ls == SetupCmd("ls 99-nfs.rules", system.rules) IN
       \E r \in Responses :
          LET asked == <<ls>> \o (IF auto_confirm THEN <<>> ELSE <<Prompt("read-ahead", r)>>)
          IN \/ /\ system.rules
                /\ log' = Append(log, ls)
                /\ UNCHANGED <<system, faults>>
             \/ /\ ~system.rules
                /\ ~auto_confirm
                /\ Declined(r)
                /\ log' = log \o asked
                /\ UNCHANGED <<system, faults>>
             \/ /\ ~system.rules
                /\ auto_confirm \/ ~Declined(r)
                /\ \/ /\ log' = log \o asked \o Succeeded(ReadAheadCmds, Len(ReadAheadCmds))
                      /\ system' = [system EXCEPT !.read_ahead = Len(ReadAheadCmds)]
                      /\ UNCHANGED faults
                   \/ /\ faults < MaxFaults
                      /\ faults' = faults + 1
                      /\ \E n \in 1..Len(ReadAheadCmds) :
                            /\ log' = log \o asked \o FailedAt(ReadAheadCmds, n)
                            /\ system' = [system EXCEPT !.read_ahead = n - 1]
    /\ UNCHANGED <<live, mounts_file, command, auto_confirm, all_vm_mounts,
                   vm_mounts, vms_to_process, fstab, vms_to_update, results,
                   verify_file, i, j, total, total_failed, total_succeeded,
                   success, pre, chain, runs, virtiofs_vars, setup_args>>

\* Lines 152-214.
optimize_network_interface ==
    /\ pc = "optimize_network_interface"
    /\ pc' = "idle"
    /\ \E r \in Responses :
          LET asked == IF auto_confirm THEN <<>> ELSE <<Prompt("network", r)>>
          IN \/ /\ ~auto_confirm
                /\ Declined(r)
                /\ log' = log \o asked
                /\ UNCHANGED <<system, faults>>
             \/ /\ auto_confirm \/ ~Declined(r)
                /\ \/ /\ log' = log \o asked \o Succeeded(NetworkCmds, Len(NetworkCmds))
                      /\ system' = [system EXCEPT !.network = Len(NetworkCmds)]
                      /\ UNCHANGED faults
                   \/ /\ faults < MaxFaults
                      /\ faults' = faults + 1
                      /\ \E n \in 1..Len(NetworkCmds) :
                            /\ log' = log \o asked \o FailedAt(NetworkCmds, n)
                            /\ system' = [system EXCEPT !.network = n - 1]
    /\ UNCHANGED <<live, mounts_file, command, auto_confirm, all_vm_mounts,
                   vm_mounts, vms_to_process, fstab, vms_to_update, results,
                   verify_file, i, j, total, total_failed, total_succeeded,
                   success, pre, chain, runs, virtiofs_vars, setup_args>>

InitSetup ==
    /\ live = [h \in HostIps |-> <<>>]
    /\ fstab = [h \in HostIps |-> InitialFstab(h)]
    /\ \E installed, rules \in BOOLEAN :
          system = [FreshSystem EXCEPT !.installed = installed, !.rules = rules]
    /\ Boot

NextSetup ==
    \/ check_args
    \/ install_VAST_NFS_driver
    \/ update_read_ahead_cache
    \/ optimize_network_interface

SpecSetup == InitSetup /\ [][NextSetup]_vars

(***************************************************************************)
(* Claims.                                                                 *)
(***************************************************************************)
\* The invocation of command c has returned.
Done(c) == pc = "idle" /\ command = c

\* The positions in the log of the commands of one kind.
Issued(kind) == {n \in 1..Len(log) : log[n].cmd = kind}

\* The operator let the phase go on: -y, or "y" at the prompt.
Confirmed == auto_confirm \/ \E n \in Issued("input") : log[n].ok

RECURSIVE Records(_)
\* <<ip, mount_point>> of every record of a checkpoint dict, in order.
Records(d) ==
    IF d = <<>> THEN <<>>
    ELSE [n \in 1..Len(Head(d).v.mounts) |->
             <<Head(d).v.ip, Head(d).v.mounts[n].mount_point>>]
         \o Records(Tail(d))

RECURSIVE Targets(_, _)
\* <<host, mount_point>> of every command of one kind in a log, in order.
Targets(l, kind) ==
    IF l = <<>> THEN <<>>
    ELSE (IF Head(l).cmd = kind THEN << <<Head(l).host, Head(l).mp>> >> ELSE <<>>)
         \o Targets(Tail(l), kind)

\* The mount points the collector would list on a host with this mount table.
Listed(table) == MountPointsOf(get_remote_mounts(table))

\* C1: when capture collects zero mounts in total and a checkpoint file
\* exists, the file is left as it was, no unmount is issued and the phase
\* returns success.
C1_EmptyCaptureKeepsCheckpoint ==
    (Done("unmount") /\ total = 0 /\ pre.file.exists)
        => /\ mounts_file = pre.file
           /\ Issued("umount") = {}
           /\ success

C1_Witness ==
    /\ Done("unmount") /\ total = 0 /\ success
    /\ pre.file.exists
    /\ Len(Records(JsonLoad(pre.file.content))) > 0
    /\ mounts_file = pre.file

\* C2 (as claimed): for every host, when capture collects zero mounts for it
\* while a checkpoint with records exists, the checkpoint file is the same
\* after the capture run, whatever the other hosts report.
C2_ZeroMountHostKeepsCheckpoint ==
    \A n \in 1..Len(all_vm_mounts) :
        (/\ Done("unmount")
         /\ Len(all_vm_mounts[n].v.mounts) = 0
         /\ pre.file.exists
         /\ Len(Records(JsonLoad(pre.file.content))) > 0)
            => mounts_file = pre.file

\* Capture wrote the checkpoint in this invocation.
SavedThisRun ==
    /\ command = "unmount"
    /\ \/ pc = "unmount_umount"
       \/ pc = "idle" /\ total > 0 /\ Confirmed
       \/ pc = "idle" /\ total = 0 /\ ~pre.file.exists

\* C3: loading the checkpoint capture saved gives the dict capture saved:
\* the same hosts in the same order, the same addresses, the same mount
\* records in the same order with the same field values.
C3_CheckpointRoundTrip ==
    SavedThisRun =>
        /\ mounts_file.exists
        /\ JsonLoad(mounts_file.content) = all_vm_mounts

C3_Witness ==
    /\ SavedThisRun
    /\ Len(all_vm_mounts) = 2
    /\ Len(all_vm_mounts[1].v.mounts) = 2
    /\ Len(all_vm_mounts[2].v.mounts) = 1
    /\ JsonLoad(mounts_file.content) = all_vm_mounts

\* C4: without a checkpoint file, remount and rollback issue no command,
\* create no checkpoint file and return failure.
C4_NoCheckpointFails ==
    (command \in {"remount", "rollback"} /\ ~pre.file.exists)
        => /\ Len(log) = 0
           /\ ~mounts_file.exists
           /\ pc = "idle" => ~success

C4_Witness ==
    /\ Done("rollback") /\ ~pre.file.exists /\ ~success
    /\ \E h \in HostIps : Len(live[h]) > 0

\* C5: once capture has issued an unmount, the checkpoint file holds every
\* mount capture collected, the unmounted mount's record among them, and the
\* query of every host came before the unmount.
C5_CheckpointBeforeUnmount ==
    (command = "unmount" /\ Issued("umount") # {})
        => /\ mounts_file.exists
           /\ LET saved == JsonLoad(mounts_file.content) IN
                 /\ saved = all_vm_mounts
                 /\ \A n \in Issued("umount") :
                       \E k \in 1..Len(Records(saved)) :
                           Records(saved)[k] = <<log[n].host, log[n].mp>>
           /\ Cardinality(Issued("findmnt --json")) = Len(load_vms)
           /\ \A q \in Issued("findmnt --json"), n \in Issued("umount") : q < n

C5_Witness ==
    /\ command = "unmount" /\ pc = "unmount_umount"
    /\ Cardinality(Issued("umount")) = 1
    /\ Len(Records(JsonLoad(mounts_file.content))) > 1

\* C6: no step of the remount, rollback, fstab and verify-mounts phases
\* changes the checkpoint file.
C6_CheckpointUntouched ==
    [][command' \in {"remount", "rollback", "fstab", "verify-mounts"}
           => mounts_file' = mounts_file]_vars

C6_Witness ==
    /\ Done("rollback") /\ ~success
    /\ total_succeeded > 0 /\ total_failed > 0
    /\ mounts_file.exists /\ mounts_file = pre.file

NoDnsOnlyToken(options) ==
    \A n \in 1..Len(options) :
        options[n] # "remoteports=dns" /\ ~StartsWithXSystemd(options[n])

\* C7: after a capture, the remount that follows it and the rollback that
\* follows that, every command succeeding, every mount that was live when
\* the capture began is live at its mount point from its source (address and
\* volume id), with its options when they hold no DNS-only token.
C7_EndToEndReversal ==
    (pc = "idle" /\ Progress.step = 3) =>
        \A h \in HostIps : \A n \in 1..Len(chain.live0[h]) :
            LET was == chain.live0[h][n] IN
            \E m \in 1..Len(live[h]) :
                /\ live[h][m].target = was.target
                /\ live[h][m].source = was.source
                /\ NoDnsOnlyToken(was.options) => live[h][m].options = was.options

C7_Witness ==
    /\ pc = "idle" /\ Progress.step = 3
    /\ \A h \in HostIps : Len(get_remote_mounts(chain.live0[h])) = 2
    /\ \A h \in HostIps : \E m \in 1..Len(live[h]) :
          live[h][m] = FsEntry(<<OriginalIp, "abc">>, "/data", <<"vers=3">>)

\* C8: when capture reaches its unmount step, it issues one unmount for
\* every recorded mount of every host, in order, whatever failed before, and
\* returns success exactly when every one of them succeeded.
C8_UnmountAllOrNothing ==
    (Done("unmount") /\ total > 0 /\ Confirmed)
        => /\ Targets(log, "umount") = Records(all_vm_mounts)
           /\ success <=> \A n \in Issued("umount") : log[n].ok

C8_Witness ==
    /\ Done("unmount") /\ total > 2 /\ Confirmed /\ ~success
    /\ \E n \in Issued("umount"), m \in Issued("umount") :
          n < m /\ ~log[n].ok /\ log[m].ok

\* C9 (as claimed): remount issues a mount command for no recorded mount
\* whose mount point is live on the host, and, when the operator agrees and
\* the probe and mkdir succeed, for every recorded mount whose mount point
\* is not.
C9_RemountMountsOnlyAbsent ==
    command = "remount" =>
        /\ \A n \in Issued("mount") : log[n].mp \notin Listed(pre.live[log[n].host])
        /\ (pc = "idle" /\ AllOk) =>
              \A k \in 1..Len(Records(vm_mounts)) :
                  LET r == Records(vm_mounts)[k] IN
                  r[2] \notin Listed(pre.live[r[1]])
                      => \E n \in Issued("mount") : <<log[n].host, log[n].mp>> = r

\* Every recorded mount of every host was live when the invocation began.
AllRecordedLive ==
    \A k \in 1..Len(Records(vm_mounts)) :
        Records(vm_mounts)[k][2] \in Listed(pre.live[Records(vm_mounts)[k][1]])

\* C10 (as claimed): when every recorded mount of every host is live, remount
\* finds nothing to restore, issues no probe, mkdir or mount, asks for no
\* confirmation, changes no mount table and returns success.
C10_RemountIdempotent ==
    (Done("remount") /\ pre.file.exists /\ AllRecordedLive)
        => /\ total = 0
           /\ success
           /\ Issued("ping") \cup Issued("mkdir") \cup Issued("mount")
                  \cup Issued("input") = {}
           /\ live = pre.live

RECURSIVE Pick(_, _, _, _)
\* The mount points of the commands of one kind issued to one host with an
\* outcome in oks, in the order of the log.
Pick(l, kind, host, oks) ==
    IF l = <<>> THEN <<>>
    ELSE (IF Head(l).cmd = kind /\ Head(l).host = host /\ Head(l).ok \in oks
          THEN <<Head(l).mp>> ELSE <<>>)
         \o Pick(Tail(l), kind, host, oks)

\* The mount points of a list of mount records, in order.
PointsOf(mounts) == [n \in 1..Len(mounts) |-> mounts[n].mount_point]

\* The phase got past its confirmation with something to do.
Started == Confirmed /\ total > 0

\* Host h answered the reachability probe / did not.
Probed(h, ok) == \E p \in Issued("ping") : log[p].host = h /\ log[p].ok = ok

\* The number of failed commands of one kind.
Failed(kind) == Cardinality({n \in Issued(kind) : ~log[n].ok})

RECURSIVE GivenUp(_, _)
\* The mounts of the hosts of d on which a command of one kind failed.
GivenUp(d, kind) ==
    IF d = <<>> THEN 0
    ELSE (IF \E n \in Issued(kind) : log[n].host = Head(d).v.ip /\ ~log[n].ok
          THEN Len(Head(d).v.mounts) ELSE 0)
         + GivenUp(Tail(d), kind)

\* C11: in a remount that got to its mount step, every to-restore mount of a
\* host that answered the probe gets its mkdir, and its mount when the mkdir
\* succeeded, whatever failed before it on that host; the phase returns
\* success exactly when no probe, mkdir or mount failed.
C11_RemountBestEffort ==
    (Done("remount") /\ Started) =>
        /\ \A n \in 1..Len(vms_to_process) :
              LET h == vms_to_process[n].v.ip IN
              Probed(h, TRUE) =>
                  /\ Pick(log, "mkdir", h, BOOLEAN) = PointsOf(vms_to_process[n].v.mounts)
                  /\ Pick(log, "mount", h, BOOLEAN) = Pick(log, "mkdir", h, {TRUE})
        /\ success <=> \A n \in Issued("ping") \cup Issued("mkdir") \cup Issued("mount") :
                           log[n].ok

C11_Witness ==
    /\ Done("remount") /\ Started /\ ~success
    /\ \E n, m \in Issued("mount") :
          /\ n < m /\ log[n].host = log[m].host
          /\ ~log[n].ok /\ log[m].ok
    /\ \E n \in Issued("mkdir"), m \in Issued("mount") :
          n < m /\ log[n].host = log[m].host /\ ~log[n].ok /\ log[m].ok

\* C12: in remount no mkdir and no mount goes to a host before that host's
\* probe of the domain succeeded; a host whose probe failed gets neither,
\* has all its to-restore mounts counted as failed, and the phase returns
\* failure.
C12_NoMountWithoutProbe ==
    command = "remount" =>
        /\ \A n \in Issued("mkdir") \cup Issued("mount") :
              \E p \in Issued("ping") :
                  p < n /\ log[p].host = log[n].host /\ log[p].ok
        /\ \A p \in Issued("ping") :
              ~log[p].ok =>
                  /\ Pick(log, "mkdir", log[p].host, BOOLEAN) = <<>>
                  /\ Pick(log, "mount", log[p].host, BOOLEAN) = <<>>
                  /\ pc = "idle" => ~success
        /\ (pc = "idle" /\ Started) =>
              total_failed = GivenUp(vms_to_process, "ping")
                                 + Failed("mkdir") + Failed("mount")

C12_Witness ==
    /\ Done("remount") /\ Started /\ ~success
    /\ Len(vms_to_process) = 2
    /\ Len(vms_to_process[1].v.mounts) = 2
    /\ Probed(vms_to_process[1].v.ip, FALSE)
    /\ total_failed = 2
    /\ \E m \in Issued("mount") : log[m].host = vms_to_process[2].v.ip /\ log[m].ok

\* C13: in rollback, after an unmount failed on a host no unmount, mkdir or
\* mount goes to that host, all of the host's mounts are counted as failed,
\* and every host of the plan, those after it included, is still worked on.
C13_RollbackFailFast ==
    command = "rollback" =>
        /\ \A n \in Issued("umount") :
              ~log[n].ok =>
                  \A m \in 1..Len(log) :
                      (m > n /\ log[m].host = log[n].host)
                          => log[m].cmd \notin {"umount", "mkdir", "mount"}
        /\ (pc = "idle" /\ Started) =>
              /\ total_failed = GivenUp(vms_to_process, "umount")
                                    + Failed("mkdir") + Failed("mount")
              /\ \A n \in 1..Len(vms_to_process) :
                    \E m \in Issued("umount") \cup Issued("mkdir") :
                        log[m].host = vms_to_process[n].v.ip

C13_Witness ==
    /\ Done("rollback") /\ Started /\ ~success
    /\ Len(vms_to_process) = 2
    /\ Len(vms_to_process[1].v.mounts) = 2
    /\ vms_to_process[1].v.current_mount_points = {"/data", "/mnt"}
    /\ Pick(log, "umount", vms_to_process[1].v.ip, BOOLEAN) = <<"/data">>
    /\ Pick(log, "umount", vms_to_process[1].v.ip, {FALSE}) = <<"/data">>
    /\ total_failed = 2
    /\ \E m \in Issued("mount") : log[m].host = vms_to_process[2].v.ip /\ log[m].ok

\* s is the beginning of t.
IsPrefix(s, t) == Len(s) <= Len(t) /\ s = SubSeq(t, 1, Len(s))

\* C14 (as claimed): in rollback the unmounts issued to a host are those of
\* its recorded mounts whose mount point is live on it, in recorded order,
\* and all of them are issued before the first mkdir or mount to that host.
C14_RollbackUnmountsLiveFirst ==
    command = "rollback" =>
        /\ \A n \in 1..Len(vms_to_process) :
              LET h == vms_to_process[n].v.ip
                  due == PointsOf(Filter(vms_to_process[n].v.mounts, Listed(pre.live[h])))
                  issued == Pick(log, "umount", h, BOOLEAN)
              IN /\ IsPrefix(issued, due)
                 /\ Pick(log, "mkdir", h, BOOLEAN) # <<>> => issued = due
        /\ \A u \in Issued("umount"), m \in Issued("mkdir") \cup Issued("mount") :
              log[u].host = log[m].host => u < m

\* The hosts of the commands of one kind, in the order of the log.
HostsOf(kind) == [n \in 1..Len(Targets(log, kind)) |-> Targets(log, kind)[n][1]]

\* The loop over the VMs that decides what to do has ended.
Planned ==
    /\ command \in {"remount", "rollback"}
    /\ pc \notin {"remount_load", "remount_check", "rollback_load", "rollback_check"}

\* C17: whatever failed on the hosts before it, every host gets its share of
\* the phase: capture queries every host of the fleet and unmounts on every
\* host with recorded mounts; remount and rollback query every host of the
\* checkpoint with an address and mounts; remount probes from every host with
\* something to restore; rollback unmounts or mounts on every host of its plan.
C17_FanoutIsolation ==
    /\ (command = "unmount" /\ pc # "unmount_collect")
           => HostsOf("findmnt --json") = [n \in 1..Len(load_vms) |-> load_vms[n].public_ip]
    /\ (Done("unmount") /\ Started)
           => \A n \in 1..Len(all_vm_mounts) :
                  Len(all_vm_mounts[n].v.mounts) > 0
                      => Pick(log, "umount", all_vm_mounts[n].v.ip, BOOLEAN) # <<>>
    /\ Planned
           => \A n \in 1..Len(vm_mounts) :
                  (vm_mounts[n].v.ip # "" /\ Len(vm_mounts[n].v.mounts) > 0)
                      => \E q \in Issued("findmnt --json") : log[q].host = vm_mounts[n].v.ip
    /\ (Done("remount") /\ Started)
           => \A n \in 1..Len(vms_to_process) :
                  \E q \in Issued("ping") : log[q].host = vms_to_process[n].v.ip
    /\ (Done("rollback") /\ Started)
           => \A n \in 1..Len(vms_to_process) :
                  \E q \in Issued("umount") \cup Issued("mkdir") :
                      log[q].host = vms_to_process[n].v.ip

C17_Witness ==
    /\ Done("remount") /\ Started
    /\ Len(vms_to_process) = 2
    /\ Probed(vms_to_process[1].v.ip, FALSE)
    /\ \E q \in Issued("findmnt --json") :
          log[q].host = vms_to_process[1].v.ip /\ ~log[q].ok
    /\ Pick(log, "mount", vms_to_process[2].v.ip, {TRUE}) = <<"/data", "/mnt">>

RECURSIVE HostLog(_, _)
\* The commands issued to one host, in the order of the log.
HostLog(l, h) ==
    IF l = <<>> THEN <<>>
    ELSE (IF Head(l).host = h THEN <<Head(l)>> ELSE <<>>) \o HostLog(Tail(l), h)

RECURSIVE RemountCmds(_, _)
\* mkdir and mount against the domain for each mount of a list, all succeeding.
RemountCmds(h, mounts) ==
    IF mounts = <<>> THEN <<>>
    ELSE <<Mkdir(h, Head(mounts).mount_point, TRUE),
           Mount(h, "-o", REMOUNT_OPTIONS, <<CRUSOE_NFS_DOMAIN, Head(mounts).volume_id>>,
                 Head(mounts).mount_point, TRUE)>>
         \o RemountCmds(h, Tail(mounts))

RECURSIVE RollbackCmds(_, _)
\* mkdir and mount from the recorded address for each mount of a list.
RollbackCmds(h, mounts) ==
    IF mounts = <<>> THEN <<>>
    ELSE LET m == Head(mounts)
             kept == rollback_options(m.options)
         IN <<Mkdir(h, m.mount_point, TRUE),
              Mount(h, IF kept = <<"">> THEN "-t nfs" ELSE "-o", kept,
                    <<m.ip_address, m.volume_id>>, m.mount_point, TRUE)>>
            \o RollbackCmds(h, Tail(mounts))

\* What a host is sent when it is worked on alone and every command to it
\* succeeds: by remount for its to-restore mounts, by rollback for its
\* recorded mounts and its mount table.
AloneRemount(h, mounts) ==
    <<Query(h, TRUE), Ping(h, TRUE)>> \o RemountCmds(h, mounts) \o <<Findmnt(h, TRUE)>>

AloneRollback(h, mounts, table) ==
    <<Query(h, TRUE)>>
    \o [n \in 1..Len(Filter(mounts, Listed(table))) |->
           Umount(h, Filter(mounts, Listed(table))[n].mount_point, TRUE)]
    \o RollbackCmds(h, mounts)
    \o <<Findmnt(h, TRUE)>>

\* A remount or rollback over two hosts has returned; a command of the phase
\* failed on host a of the plan and every command to host b succeeded.
OneFailedOneSucceeded(a, b) ==
    /\ a # b
    /\ pc = "idle" /\ command \in {"remount", "rollback"} /\ Started
    /\ Len(vms_to_process) = 2
    /\ \E n \in 1..Len(log) :
          /\ log[n].host = vms_to_process[a].v.ip
          /\ log[n].cmd \in {"ping", "umount", "mkdir", "mount"}
          /\ ~log[n].ok
    /\ \A n \in 1..Len(log) :
          log[n].host = vms_to_process[b].v.ip => log[n].ok

\* The succeeding host was sent what it is sent when worked on alone.
Unaffected(b) ==
    LET h == vms_to_process[b].v.ip
        mounts == vms_to_process[b].v.mounts
    IN HostLog(log, h) =
           IF command = "remount" THEN AloneRemount(h, mounts)
           ELSE AloneRollback(h, mounts, pre.live[h])

\* C18 (as claimed): over two hosts where the phase fails on one and succeeds
\* on the other, the tally is 1 of 2 succeeded and the succeeding host is sent
\* what it is sent when worked on alone.
C18_OneOfTwo ==
    \A a, b \in 1..2 :
        OneFailedOneSucceeded(a, b)
            => /\ total = 2 /\ total_succeeded = 1
               /\ Unaffected(b)

\* C18 (amended): the tally counts mounts, not hosts: out of the mounts of
\* both hosts it reports as succeeded the mounts of the succeeding host and
\* the mounts that succeeded on the failing host, the rest as failed (1 of 2
\* when each host has one mount); the phase fails; the succeeding host is
\* sent what it is sent when worked on alone.
C18_FanoutTally ==
    \A a, b \in 1..2 :
        OneFailedOneSucceeded(a, b)
            => /\ total = Len(vms_to_process[a].v.mounts) + Len(vms_to_process[b].v.mounts)
               /\ total_succeeded =
                      Len(vms_to_process[b].v.mounts)
                          + Len(Pick(log, "mount", vms_to_process[a].v.ip, {TRUE}))
               /\ total_failed = total - total_succeeded
               /\ (Len(vms_to_process[a].v.mounts) = 1 /\ Len(vms_to_process[b].v.mounts) = 1)
                      => total = 2 /\ total_succeeded = 1
               /\ ~success
               /\ Unaffected(b)

C18_Witness ==
    /\ OneFailedOneSucceeded(1, 2)
    /\ command = "rollback"
    /\ Len(vms_to_process[1].v.mounts) = 2
    /\ Len(vms_to_process[2].v.mounts) = 1
    /\ Pick(log, "umount", vms_to_process[1].v.ip, {FALSE}) # <<>>
    /\ Pick(log, "umount", vms_to_process[2].v.ip, {TRUE}) # <<>>
    /\ total = 3 /\ total_succeeded = 1 /\ total_failed = 2
    /\ Unaffected(2)

\* C19 (as claimed): in remount and rollback, after the inventory query of a
\* host failed, no unmount, mkdir or mount is issued to that host.
C19_FailedQueryNotEmpty ==
    command \in {"remount", "rollback"} =>
        \A q \in Issued("findmnt --json") :
            ~log[q].ok =>
                \A n \in 1..Len(log) :
                    (n > q /\ log[n].host = log[q].host)
                        => log[n].cmd \notin {"umount", "mkdir", "mount"}

\* The token is one rollback must not pass to a mount by address.
IsDnsOnly(o) == o = "remoteports=dns" \/ StartsWithXSystemd(o)

\* The tokens of a recorded option string that rollback is to keep.
Kept(recorded) ==
    IF recorded = <<"">> THEN <<>>
    ELSE SelectSeq(recorded, LAMBDA o : ~IsDnsOnly(o))

\* The option list a mount command was given: none for mount -t nfs.
OptionList(c) == IF c.form = "-o" THEN c.opts ELSE <<>>

\* The record of mount point mp on the host with address h in the checkpoint
\* rollback loaded.
Recorded(h, mp) ==
    LET n == CHOOSE n \in 1..Len(vm_mounts) : vm_mounts[n].v.ip = h
        k == CHOOSE k \in 1..Len(vm_mounts[n].v.mounts) :
                 vm_mounts[n].v.mounts[k].mount_point = mp
    IN vm_mounts[n].v.mounts[k]

\* C15: the option list of every mount rollback issues is the recorded token
\* sequence without the tokens equal to remoteports=dns and the tokens that
\* begin with x-systemd.; the other tokens are kept as they are, in order.
C15_RollbackStripsDnsTokens ==
    command = "rollback" =>
        \A n \in Issued("mount") :
            OptionList(log[n]) = Kept(Recorded(log[n].host, log[n].mp).options)

C15_Witness ==
    /\ Done("rollback")
    /\ \E n \in Issued("mount") :
          /\ log[n].ok
          /\ Recorded(log[n].host, log[n].mp).options
                 = <<"x-systemd.automount", "remoteports=1-2", "remoteports=dns">>
          /\ log[n].opts = <<"remoteports=1-2">>
    /\ \E h \in HostIps : \E m \in 1..Len(live[h]) :
          live[h][m].options = <<"remoteports=1-2">>

\* C16: rollback mounts with -t nfs and no option list when the recorded
\* option string is empty and when stripping leaves no token, and with -o and
\* the stripped list otherwise; no mount -o with an empty list is issued.
C16_RollbackDefaultMount ==
    command = "rollback" =>
        \A n \in Issued("mount") :
            LET recorded == Recorded(log[n].host, log[n].mp).options IN
            /\ log[n].form \in {"-o", "-t nfs"}
            /\ log[n].form = "-t nfs" <=> (recorded = <<"">> \/ Kept(recorded) = <<>>)
            /\ log[n].form = "-o" =>
                  /\ log[n].opts = Kept(recorded)
                  /\ log[n].opts # <<>>
                  /\ \A k \in 1..Len(log[n].opts) : log[n].opts[k] # ""

C16_Witness ==
    /\ Done("rollback")
    /\ \E n \in Issued("mount") :
          /\ log[n].ok
          /\ log[n].form = "-t nfs"
          /\ Recorded(log[n].host, log[n].mp).options
                 = <<"remoteports=dns", "x-systemd.idle-timeout=30">>
    /\ \E h \in HostIps : \E m \in 1..Len(live[h]) :
          live[h][m].source = <<OriginalIp, "abc">> /\ live[h][m].options = <<"">>

\* C20: rewriting the lines the rewriter returned for a text returns the
\* same lines and counts no change, for the text of every /etc/fstab and for
\* the lines the fstab phase is about to write.
C20_RewriteIdempotent ==
    /\ \A h \in HostIps :
          LET once == process_fstab_content(CatStripped(fstab[h]))
              twice == process_fstab_content(once.new_lines)
          IN twice.new_lines = once.new_lines /\ twice.nfs_count = 0
    /\ \A n \in 1..Len(vms_to_update) :
          LET twice == process_fstab_content(vms_to_update[n].v.new_lines)
          IN twice.new_lines = vms_to_update[n].v.new_lines /\ twice.nfs_count = 0

C20_Witness ==
    /\ Done("fstab") /\ success
    /\ pre.live = live
    /\ \E n \in 1..Len(vms_to_update) :
          /\ vms_to_update[n].v.nfs_count = 2
          /\ vms_to_update[n].v.original = <<LegacyLine("/data"), ShortLine(4)>>
          /\ fstab[vms_to_update[n].v.ip] = vms_to_update[n].v.new_lines
          /\ fstab[vms_to_update[n].v.ip] # vms_to_update[n].v.original

\* The texts the rewriter is applied to and what it returned for them: the
\* text of every /etc/fstab as cat gives it, and the texts of the VMs the
\* fstab phase is to update.
Rewrites ==
    {[original |-> CatStripped(fstab[h]),
      new_lines |-> process_fstab_content(CatStripped(fstab[h])).new_lines,
      nfs_count |-> process_fstab_content(CatStripped(fstab[h])).nfs_count] : h \in HostIps}
    \cup {[original |-> vms_to_update[n].v.original,
           new_lines |-> vms_to_update[n].v.new_lines,
           nfs_count |-> vms_to_update[n].v.nfs_count] : n \in 1..Len(vms_to_update)}

\* A line of the managed type whose source holds the volume delimiter and
\* does not begin with the domain; comments and blank lines are not entries.
IsLegacyManaged(line) ==
    /\ line.fields # <<>>
    /\ ~StartsWithHash(line.fields[1][1])
    /\ Len(line.fields) >= 3
    /\ line.fields[3] = <<"nfs">>
    /\ Len(line.fields[1]) >= 2
    /\ ~StartsWithDomain(line.fields[1][1])

\* The lines of r.original at positions in where; the rest are the same in
\* r.new_lines, the number of lines is the same, and the count is their number.
ChangesExactly(r, where) ==
    /\ Len(r.new_lines) = Len(r.original)
    /\ \A k \in 1..Len(r.original) :
          r.new_lines[k] # r.original[k] <=> k \in where
    /\ r.nfs_count = Cardinality(where)

Migrated(line) ==
    << <<CRUSOE_NFS_DOMAIN, line.fields[1][2]>>, line.fields[2], <<"nfs">>,
       <<FSTAB_OPTIONS>> >>

\* C23 (as claimed): the line emitted for a legacy entry carries the mount
\* point, dump and pass of the original with the domain, the volume id, the
\* type and the option string.
C23_CarriesDumpAndPass ==
    \A r \in Rewrites : \A k \in 1..Len(r.original) :
        (r.new_lines[k] # r.original[k] /\ Len(r.original[k].fields) = 6)
            => r.new_lines[k].fields
                   = Migrated(r.original[k]) \o SubSeq(r.original[k].fields, 5, 6)

\* C23 (amended): the line emitted for a legacy entry carries the mount point
\* of the original with the domain, the volume id, the type and the option
\* string, and 0 0 for dump and pass whatever the original has there.
C23_WritesZeroDumpAndPass ==
    \A r \in Rewrites : \A k \in 1..Len(r.original) :
        r.new_lines[k] # r.original[k]
            => /\ r.new_lines[k].fields = Migrated(r.original[k]) \o << <<"0">>, <<"0">> >>
               /\ r.new_lines[k].lead = ""
               /\ r.new_lines[k].sep = " "

C23_Witness ==
    /\ Done("fstab") /\ success
    /\ \E n \in 1..Len(vms_to_update) :
          /\ vms_to_update[n].v.original = <<RootLine, LegacyLine("/data")>>
          /\ LegacyLine("/data").fields[6] = <<"2">>
          /\ fstab[vms_to_update[n].v.ip][2].fields[2] = <<"/data">>
          /\ fstab[vms_to_update[n].v.ip][2].fields[6] = <<"0">>

\* The host could not be verified: its connectivity check or its test script
\* failed, or the script's output could not be parsed.
VerifyFailed(h) ==
    \E n \in 1..Len(log) :
        /\ log[n].host = h
        /\ log[n].cmd \in {"echo ok", "test_script"}
        /\ ~log[n].ok \/ log[n].form = "unparsable"

\* C24: the report has one row per host, in host order, whatever failed: the
\* row of a host that could not be verified has ERROR in COUNT, the row of a
\* verified host has the number of its live mounts there, 0 when it has none,
\* and every host after a failed one is still checked.
C24_OneRowPerHost ==
    command = "verify-mounts" =>
        /\ pc = "verify" => Len(results) = i - 1
        /\ pc # "verify" => Len(results) = Len(load_vms)
        /\ \A n \in 1..Len(results) :
              LET h == load_vms[n].public_ip IN
              /\ results[n].HOST = load_vms[n].name
              /\ \E e \in Issued("echo ok") : log[e].host = h
              /\ results[n].COUNT = "ERROR" <=> VerifyFailed(h)
              /\ results[n].COUNT = "0" <=> (~VerifyFailed(h) /\ Len(live[h]) = 0)
              /\ ~VerifyFailed(h) => results[n].COUNT = ToString(Len(live[h]))

C24_Witness ==
    /\ Done("verify-mounts") /\ success
    /\ Len(results) = 2
    /\ results[1].COUNT = "ERROR"
    /\ ~log[1].ok
    /\ Len(live[load_vms[1].public_ip]) = 0
    /\ results[2].COUNT = "0"

\* The items of a phase: each host's inventory query or configuration read
\* and each unmount, mount and write.
Items ==
    {n \in 1..Len(log) :
        log[n].cmd \in {"findmnt --json", "cat /etc/fstab", "umount", "mkdir",
                        "mount", "write /etc/fstab"}}

\* C25: a phase that exits with success had every one of its items succeed,
\* the per-host inventory queries and configuration reads included.
C25_SuccessOnlyIfEveryItem ==
    (pc = "idle" /\ command \in {"unmount", "remount", "rollback", "fstab"} /\ success)
        => \A n \in Items : log[n].ok

\* No unmount, mount or configuration write went to any host in this phase,
\* the checkpoint is the one the phase found, and the phase returned failure.
NothingDone ==
    /\ \A n \in 1..Len(log) :
          log[n].cmd \notin {"umount", "mkdir", "mount", "write /etc/fstab"}
    /\ live = pre.live
    /\ mounts_file = pre.file
    /\ pc = "idle"
    /\ ~success

\* With auto-confirm on, the phase awaits no prompt.
NoPromptWhenAuto == auto_confirm => Issued("input") = {}

\* C26 as stated: an answer other than 'y' with auto-confirm off leaves every
\* host and the checkpoint alone and the phase fails; with auto-confirm on no
\* prompt is awaited.
C26_GatedByLowercaseY ==
    /\ \A n \in Issued("input") : log[n].form # "y" => ~auto_confirm /\ NothingDone
    /\ NoPromptWhenAuto

\* C26: an answer other than 'y' or 'Y' with auto-confirm off leaves every
\* host and the checkpoint alone and the phase fails; with auto-confirm on no
\* prompt is awaited.
C26_GatedByYes ==
    /\ \A n \in Issued("input") :
          log[n].form \notin {"y", "Y"} => ~auto_confirm /\ NothingDone
    /\ NoPromptWhenAuto

C26_Witness ==
    /\ Done("unmount")
    /\ \E n \in Issued("input") : log[n].form = "n"
    /\ \E h \in HostIps : Len(get_remote_mounts(live[h])) > 0
    /\ ~mounts_file.exists
    /\ ~success

\* The indices of the entries of a listing whose source holds ":/volumes/".
CrusoeIdx(t) == {m \in 1..Len(t) : Len(t[m].source) >= 2}

\* The mounts recorded for a host are the Crusoe entries of its listing t, in
\* the listing's order, each with its address and its volume id.
IsCrusoeSubsequence(mounts, t) ==
    LET kept == SelectIdx(t, CrusoeIdx(t), 1) IN
    /\ Len(mounts) = Cardinality(CrusoeIdx(t))
    /\ Len(mounts) = Len(kept)
    /\ \A m \in 1..Len(kept) :
          /\ mounts[m].mount_point = kept[m].target
          /\ mounts[m].ip_address = kept[m].source[1]
          /\ mounts[m].volume_id = kept[m].source[2]
          /\ mounts[m].options = kept[m].options

\* C27: the inventory collector returns exactly the entries whose source
\* holds ":/volumes/", in the listing's order, each split into address and
\* volume id; an entry without the delimiter is skipped, the collection does
\* not fail and the other entries are collected all the same.
C27_CollectsCrusoeSubsequence ==
    command = "unmount" =>
        /\ \A n \in 1..Len(all_vm_mounts) :
              IsCrusoeSubsequence(all_vm_mounts[n].v.mounts,
                                  pre.live[all_vm_mounts[n].v.ip])
        /\ \A q \in Issued("findmnt --json") :
              log[q].ok => \E n \in 1..Len(all_vm_mounts) :
                               all_vm_mounts[n].v.ip = log[q].host

C27_Witness ==
    /\ command = "unmount"
    /\ Len(all_vm_mounts) >= 1
    /\ LET t == pre.live[all_vm_mounts[1].v.ip]
           mounts == all_vm_mounts[1].v.mounts
       IN /\ Len(t) = 3
          /\ Len(t[1].source) = 2
          /\ Len(t[2].source) = 1
          /\ Len(t[3].source) = 2
          /\ Len(mounts) = 2
          /\ mounts[1].mount_point = t[1].target
          /\ mounts[2].mount_point = t[3].target

\* A virtiofs line of /etc/fstab whose disk is in --name-ids.
MappedVirtiofs(line) ==
    /\ Len(line.fields) >= 6
    /\ line.fields[3] = <<"virtiofs">>
    /\ line.fields[1] \in {<<d>> : d \in DOMAIN name_to_id}

\* C28: when the live remount succeeded and the script went on to /etc/fstab,
\* the rewrite raises no error on blank and short lines, and once the file
\* is read, confirmed and written no virtiofs line of a disk of --name-ids
\* is left in it, the first line included.
C28_ReplacesEveryVirtiofsLine ==
    (Done("virtiofs-to-nfs") /\ success)
        => /\ \A n \in 1..Len(log) : log[n].cmd # "IndexError"
           /\ (Confirmed /\ \A n \in 1..Len(log) : log[n].ok)
                  => \A n \in 1..Len(fstab[this_vm]) :
                         ~MappedVirtiofs(fstab[this_vm][n])

\* C29: at the end of every capture, remount and rollback that reached its
\* execution step, the mounts counted as succeeded and those counted as failed
\* add up to the total announced, whatever failed; on the way there they never
\* exceed it.
C29_TallyAddsUp ==
    (command \in {"unmount", "remount", "rollback"} /\ Started)
        => /\ total_succeeded + total_failed <= total
           /\ pc = "idle" => total_succeeded + total_failed = total

C29_Witness ==
    /\ Done("rollback") /\ Started
    /\ \E n \in Issued("umount") : ~log[n].ok
    /\ total_failed = 2
    /\ total_succeeded >= 1
    /\ total = total_failed + total_succeeded

\* The addresses the checkpoint d records, one per recorded mount.
RecordedAddresses(d) ==
    UNION {{d[n].v.mounts[m].ip_address : m \in 1..Len(d[n].v.mounts)} :
              n \in 1..Len(d)}

\* C30: whatever captures, remounts and rollbacks were run, rollback mounts
\* from the address that was live before the first migration and never from
\* the canonical domain, and a capture run while the canonical mounts are live
\* leaves the originally recorded addresses in the checkpoint: no record of
\* the checkpoint has the canonical domain for its address.
C30_RollbackAddressIsOriginal ==
    /\ \A n \in Issued("mount") :
          command = "rollback" => log[n].src[1] = OriginalIp
    /\ mounts_file.exists
          => CRUSOE_NFS_DOMAIN \notin RecordedAddresses(JsonLoad(mounts_file.content))

\* The checkpoint file f holds a record with mounts for the VM named vm_name.
HoldsRecord(f, vm_name) ==
    /\ f.exists
    /\ HasKey(JsonLoad(f.content), vm_name)
    /\ Len(Get(JsonLoad(f.content), vm_name).mounts) > 0

\* C31: when the inventory query of a host fails during capture and the
\* checkpoint held a record with mounts for that host, the checkpoint holds
\* the same record for it after the capture, whatever the other hosts report.
C31_FailedQueryKeepsRecord ==
    \A n \in 1..Len(load_vms) :
        (/\ Done("unmount")
         /\ \E q \in Issued("findmnt --json") :
               log[q].host = load_vms[n].public_ip /\ ~log[q].ok
         /\ HoldsRecord(pre.file, load_vms[n].name))
            => /\ HoldsRecord(mounts_file, load_vms[n].name)
               /\ Get(JsonLoad(mounts_file.content), load_vms[n].name)
                      = Get(JsonLoad(pre.file.content), load_vms[n].name)

\* The mount m recorded for the host at ip is live against the canonical
\* domain.
LiveOnDomain(ip, m) ==
    \E n \in 1..Len(live[ip]) :
        /\ live[ip][n].target = m.mount_point
        /\ live[ip][n].source = <<CRUSOE_NFS_DOMAIN, m.volume_id>>

\* C32: when remount returns success, every recorded mount of every host is
\* live against the canonical domain, also when unmounts of the preceding
\* capture failed.
C32_SuccessMeansOnDomain ==
    (Done("remount") /\ success)
        => \A n \in 1..Len(vm_mounts) :
               \A m \in 1..Len(vm_mounts[n].v.mounts) :
                   LiveOnDomain(vm_mounts[n].v.ip, vm_mounts[n].v.mounts[m])

\* The step issues a mount command in rollback.
RollbackMounts ==
    /\ command = "rollback"
    /\ Len(log') > Len(log)
    /\ log'[Len(log')].cmd = "mount"

\* C33: rollback issues no mount command for a mount point that is live on
\* the host at that moment.
C33_NoDoubleMount ==
    [][RollbackMounts
          => ~IsMounted(live[log'[Len(log')].host], log'[Len(log')].mp)]_vars

RECURSIVE EmptyEntries(_)
\* The entries capture writes for the hosts it could query when none of them
\* has a mount: each host's address and an empty list of mounts.
EmptyEntries(l) ==
    IF l = <<>> THEN <<>>
    ELSE (IF Head(l).cmd = "findmnt --json" /\ Head(l).ok
          THEN LET vm == CHOOSE vm \in {load_vms[n] : n \in 1..Len(load_vms)} :
                             vm.public_ip = Head(l).host
               IN <<[k |-> vm.name, v |-> [ip |-> vm.public_ip, mounts |-> <<>>]]>>
          ELSE <<>>)
         \o EmptyEntries(Tail(l))

\* C34: a capture that collects no mount at all and finds no checkpoint
\* creates the checkpoint with the empty-mount entries of the hosts, issues
\* no unmount and returns success; a remount that finds such a checkpoint
\* reports nothing to restore, touches no host and succeeds instead of
\* failing for want of a checkpoint.
C34_EmptyCaptureCreatesCheckpoint ==
    /\ (Done("unmount") /\ total = 0 /\ ~pre.file.exists)
          => /\ mounts_file.exists
             /\ JsonLoad(mounts_file.content) = EmptyEntries(log)
             /\ Issued("umount") = {}
             /\ success
    /\ (/\ Done("remount")
        /\ pre.file.exists
        /\ Len(Records(JsonLoad(pre.file.content))) = 0)
          => /\ success
             /\ total = 0
             /\ log = <<>>
             /\ live = pre.live

C34_Witness ==
    /\ Done("remount") /\ success
    /\ pre.file.exists
    /\ Len(JsonLoad(pre.file.content)) = 2
    /\ Len(Records(JsonLoad(pre.file.content))) = 0
    /\ vm_mounts = JsonLoad(pre.file.content)
    /\ log = <<>>

\* The number of entries the rewriter would migrate in the /etc/fstab of h.
ToMigrate(h) == process_fstab_content(CatStripped(fstab[h])).nfs_count

\* The step issues a write of /etc/fstab in the fstab phase.
WritesFstab ==
    /\ command = "fstab"
    /\ Len(log') > Len(log)
    /\ log'[Len(log')].cmd = "write /etc/fstab"

\* C35: the fstab phase writes the configuration of a host only when the
\* rewriter changed a line of it, and the content written differs from the
\* content read; a fully successful run leaves no entry to migrate on any
\* host, and a run that finds none on any host asks nothing, writes nothing
\* and returns success.
C35_WritesOnlyChanges ==
    /\ [][WritesFstab
             => LET h == log'[Len(log')].host IN
                /\ ToMigrate(h) > 0
                /\ log'[Len(log')].ok
                      => /\ fstab'[h] # CatStripped(fstab[h])
                         /\ fstab'[h] = process_fstab_content(CatStripped(fstab[h])).new_lines]_vars
    /\ []((Done("fstab") /\ AllOk) => \A h \in HostIps : ToMigrate(h) = 0)
    /\ []((/\ command = "fstab"
           /\ Issued("write /etc/fstab") = {}
           /\ \A h \in HostIps : ToMigrate(h) = 0)
             => /\ total = 0
                /\ vms_to_update = <<>>
                /\ Issued("input") = {}
                /\ pc \notin {"fstab_write"}
                /\ pc = "idle" => success)

C35_Witness ==
    /\ Done("fstab") /\ success
    /\ runs = 2
    /\ total = 0
    /\ log = <<Cat(load_vms[1].public_ip, TRUE), Cat(load_vms[2].public_ip, TRUE)>>
    /\ \E n \in 1..Len(fstab[load_vms[1].public_ip]) :
          fstab[load_vms[1].public_ip][n] = new_line(<<OriginalIp, "def">>, <<"/mnt">>)

\* The script is in or past remount_virtiofs_mounts with the mounts it found.
HasMounts ==
    command = "virtiofs-to-nfs" /\ virtiofs_mounts # None /\ virtiofs_mounts # <<>>

\* The part of the log that belongs to the k-th mount of the list: from its
\* umount up to the umount of the next one. Two mounts may share a mount
\* point, so the commands are told apart by their place.
Taken(k) == k <= Cardinality(Issued("umount"))

Segment(k) ==
    {n \in 1..Len(log) : Cardinality({m \in 1..n : log[m].cmd = "umount"}) = k}

\* The attempts to mount the k-th mount over NFS, and the commands that mount
\* it as virtiofs again.
NfsAttempts(k) ==
    {n \in Segment(k) : log[n].cmd = "mount" /\ log[n].form = "-o"}

Restores(k) ==
    {n \in Segment(k) : log[n].cmd = "mount" /\ log[n].form = "-t virtiofs"}

\* The commands that make a mount a failed one: its failed unmount, or the
\* last of NUM_RETRIES failed NFS mounts.
Failures(k) ==
    {n \in Segment(k) : log[n].cmd = "umount" /\ ~log[n].ok}
        \cup {n \in NfsAttempts(k) :
                 /\ ~log[n].ok
                 /\ Cardinality({a \in NfsAttempts(k) : a <= n}) = NUM_RETRIES}

FailedMount(k) == Failures(k) # {}

Remounted(k) == \E n \in NfsAttempts(k) : log[n].ok

\* The mounts of the list that failed.
FailedMounts == {k \in 1..Len(virtiofs_mounts) : FailedMount(k)}

\* C36: for every virtiofs mount whose unmount failed or whose NFS mount
\* failed on every attempt, one command mounting it as virtiofs again is
\* issued right after the failure, one failure is counted, and the next mount
\* of the list is taken up; once every mount is remounted or failed the
\* script returns success exactly when none failed, and never before.
C36_FailedMountRestoredAndCounted ==
    HasMounts =>
        /\ failed_count = Cardinality(FailedMounts)
        /\ \A k \in 1..Len(virtiofs_mounts) :
              \A n \in Segment(k) :
                  log[n].cmd \in {"umount", "mount"} => log[n].mp = virtiofs_mounts[k][1]
        /\ \A k \in FailedMounts :
              /\ Cardinality(Failures(k)) = 1
              /\ Restores(k) = {n + 1 : n \in Failures(k)}
              /\ \A n \in Restores(k) : log[n].src = <<virtiofs_mounts[k][2]>>
              /\ k < Len(virtiofs_mounts)
                    => \/ pc = "umount" /\ j = k + 1
                       \/ Taken(k + 1)
        /\ (\A k \in 1..Len(virtiofs_mounts) : FailedMount(k) \/ Remounted(k))
              => /\ pc \in {"remount_fstab_mounts", "idle"}
                 /\ success <=> FailedMounts = {}
        /\ success => \A k \in 1..Len(virtiofs_mounts) : Remounted(k)

C36_Witness ==
    /\ HasMounts /\ pc = "idle"
    /\ Len(virtiofs_mounts) = 2
    /\ \E n \in Segment(1) : log[n].cmd = "umount" /\ ~log[n].ok
    /\ Cardinality({n \in NfsAttempts(2) : ~log[n].ok}) = NUM_RETRIES
    /\ failed_count = 2
    /\ ~success

\* C37: the NFS mount of one volume is attempted at most 5 times, a
\* successful attempt is the last one, the volume is mounted as virtiofs
\* again after NFS attempts only when 5 of them failed, and the script,
\* once started, comes to its end.
C37_AtMostFiveAttempts ==
    /\ [](HasMounts =>
             \A k \in 1..Len(virtiofs_mounts) :
                 /\ Cardinality(NfsAttempts(k)) <= 5
                 /\ \A n, a \in NfsAttempts(k) : log[n].ok => a <= n
                 /\ (NfsAttempts(k) # {} /\ (Restores(k) # {} \/ FailedMount(k)))
                       => Cardinality({n \in NfsAttempts(k) : ~log[n].ok}) = 5)
    /\ (command = "virtiofs-to-nfs") ~> (pc = "idle")

C37_Witness ==
    /\ HasMounts /\ pc = "idle"
    /\ Len(virtiofs_mounts) = 2
    /\ Cardinality(NfsAttempts(1)) = 5
    /\ Remounted(1)
    /\ Cardinality(NfsAttempts(2)) = 5
    /\ ~Remounted(2)
    /\ failed_count = 1

\* C38: /etc/fstab is read or written only after the live remount returned
\* success, that is after both endpoints answered the ping, the operator
\* agreed and every mount was converted; and an umount is issued only after
\* both endpoints answered the ping.
BothReachable ==
    \E n, m \in Issued("ping") :
        /\ n < m
        /\ log[n] = PingIp(start_ip, TRUE)
        /\ log[m] = PingIp(end_ip, TRUE)

C38_FstabOnlyAfterSuccess ==
    command = "virtiofs-to-nfs" =>
        /\ (Issued("cat /etc/fstab") \cup Issued("write /etc/fstab") # {}
            \/ pc = "remount_fstab_mounts") =>
               /\ success /\ failed_count = 0
               /\ BothReachable
               /\ Confirmed
               /\ HasMounts
               /\ \A k \in 1..Len(virtiofs_mounts) : ~FailedMount(k) /\ Remounted(k)
               /\ \A n \in Issued("umount") \cup Issued("mount") \cup Issued("ping") :
                      \A m \in Issued("cat /etc/fstab") \cup Issued("write /etc/fstab") :
                          n < m
        /\ \A n \in Issued("umount") :
               \E a, b \in Issued("ping") :
                   /\ a < b /\ b < n
                   /\ log[a] = PingIp(start_ip, TRUE)
                   /\ log[b] = PingIp(end_ip, TRUE)

C38_Witness ==
    /\ command = "virtiofs-to-nfs" /\ pc = "idle"
    /\ Len(virtiofs_mounts) = 2 /\ HasMounts
    /\ failed_count = 1
    /\ \E n \in Issued("umount") : ~log[n].ok
    /\ Issued("cat /etc/fstab") = {}
    /\ \E k \in DOMAIN fstab[this_vm] : fstab[this_vm][k] = VirtiofsLine("disk-1", "/data")

\* C39: in the driver setup script, once the operator has declined the
\* install confirmation, no command that changes the system (the initramfs
\* update and driver reload, the read-ahead and the network tuning) is run
\* and the installation does not return success.
SystemModifying ==
    {EnableCmd} \cup {ReadAheadCmds[k] : k \in DOMAIN ReadAheadCmds}
                \cup {NetworkCmds[k] : k \in DOMAIN NetworkCmds}

C39_DeclineStopsSetup ==
    command = "nfs-setup" =>
        \A n \in Issued("input") :
            (log[n].mp = "install" /\ ~log[n].ok) =>
                /\ \A m \in (n + 1)..Len(log) : log[m].cmd \notin SystemModifying
                /\ ~success

=============================================================================
